---- MODULE Spec2Model ----
(***************************************************************************)
(* Retrieval fusion and reasoning engine of the memory-retrieval backend:  *)
(* the ReAct loop (core/react.py), the direct RAG mode                     *)
(* (api/openai_client.py), the reference resolver (search/reference.py)    *)
(* and the two fusion routines (core/rag.py, search_utils.py).             *)
(*                                                                         *)
(* Text is a sequence of tokens.  Tokens of one line are separated by a    *)
(* single blank, the token NL is a line break.  Scores and weights are     *)
(* integers in tenths (0.5 is 5), products of the two in hundredths.       *)
(***************************************************************************)
EXTENDS Integers, Sequences, FiniteSets, TLC

VARIABLES
    mode,                \* request parameter of memory_retrieval: "rag" | "mixed" | "react"
    user_id,             \* the user who issued the query
    max_iterations,      \* react_agent's iteration budget
    pc,                  \* position of the request
    iteration,           \* react_agent: iteration
    llm_calls,           \* number of completions requested from the model
    agent_messages,      \* react_agent: transcript after the system and user turns
    all_search_results,  \* react_agent: accumulated hits; rag: raw_results
    outputs,             \* the raw model outputs received so far
    result,              \* the payload returned to memory_retrieval
    failed_services,     \* what failed during the request: services, unreadable responses
    vector_results,      \* fusion input: hits of the semantic signal
    keyword_results,     \* fusion input: hits of the keyword signal
    fuzzy_results,       \* fusion input: hits of the fuzzy signal
    top_k,               \* fusion input
    fpc,                 \* position of the fusion run
    weighted_out,        \* result of search_utils.combined_search
    weights_used,        \* the weights search_utils.combined_search combined with
    rag_out,             \* final_results of core/rag.combined_search
    dedup_out,           \* result of deduplicate_results on the concatenated hits
    failed_signals,      \* the signals that raised inside core/rag.combined_search
    in_text,             \* resolver input: a model output
    in_ids,              \* resolver input: the selected ids
    in_hits,             \* resolver input: raw_results
    fetch_fails,         \* the rows whose database fetch raises
    ppc,                 \* position of the resolver run
    out_action,          \* result of parse_action
    out_content,         \* content returned by parse_reference_ids
    out_refs,            \* result of fetch_references_by_ids
    max_retries,         \* chat_completion: the number of attempts allowed
    attempt,             \* chat_completion: the loop variable
    rpc,                 \* position of the chat_completion call
    attempts_made,       \* the completions chat_completion requested so far
    errors,              \* the error texts the attempts raised, in order
    waits,               \* the wait_time of every backoff slept, in order
    qpc,                 \* server: where each concurrent query of memory_retrieval stands
    q_attempt,           \* server: chat_completion's attempt of each query
    loop_owner,          \* server: the query the event loop thread is running, 0 when it is free
    call_pc,             \* process_parallel: where each call stands
    call_user,           \* process_parallel: user_id of each call
    call_max_workers,    \* process_parallel: max_workers of each call's executor
    call_pending,        \* process_parallel: submitted items no worker has taken yet
    call_running,        \* process_parallel: worker threads of the call running an item
    active_workers,      \* GlobalThreadPoolManager._active_workers
    user_workers,        \* GlobalThreadPoolManager._user_workers
    global_lock,         \* GlobalThreadPoolManager._global_lock: the thread holding it, 0 when free
    tpc,                 \* where each thread calling into the manager stands
    t_user,              \* the user_id a thread passed to the manager
    t_origin,            \* the method a thread called: "acquire_worker" or "can_acquire_worker"
    t_result,            \* the boolean a thread's call returned
    doc_text,            \* chunk_text: text, one character per element
    chunk_size,          \* chunk_text: chunk_size
    overlap,             \* chunk_text: overlap
    start,               \* chunk_text: start
    chunks,              \* chunk_text: chunks
    starts,              \* the start offset of every chunk appended, in order
    cpc                  \* position of the chunk_text call

retrievalVars == <<mode, user_id, max_iterations, pc, iteration, llm_calls,
                   agent_messages, all_search_results, outputs, result,
                   failed_services>>
fusionVars == <<vector_results, keyword_results, fuzzy_results, top_k, fpc,
                weighted_out, weights_used, rag_out, dedup_out, failed_signals>>
resolverVars == <<in_text, in_ids, in_hits, fetch_fails, ppc, out_action,
                  out_content, out_refs>>
retryVars == <<max_retries, attempt, rpc, attempts_made, errors, waits>>
serverVars == <<qpc, q_attempt, loop_owner>>
poolVars ==
    <<call_pc, call_user, call_max_workers, call_pending, call_running,
      active_workers, user_workers, global_lock, tpc, t_user, t_origin,
      t_result>>
chunkVars == <<doc_text, chunk_size, overlap, start, chunks, starts, cpc>>
vars == <<retrievalVars, fusionVars, resolverVars, retryVars, serverVars,
          poolVars, chunkVars>>

(***************************************************************************)
(* Bounds of the model.                                                    *)
(***************************************************************************)
MaxIter == 2
MaxToolIter == 1
MaxHits == 1
MaxVectorHits == 1
MaxKeywordHits == 2
MaxFuzzyHits == 1
MaxTopK == 2
MaxTextLen == 5
MaxPrefixLen == 2
MaxIds == 3

\* chat_completion: the largest max_retries drawn (its default is 3)
MaxRetries == 3

\* the queries the server handles at the same time
NumQueries == 2

\* the process_parallel calls that may run at the same time, and the items of one
NumCalls == 2
MaxItems == 3

\* the threads that call acquire_worker or can_acquire_worker
NumThreads == 3

\* chunk_text: the longest text, the largest chunk_size, and the number of
\* chunks after which the model stops following a call
MaxChars == 6
MaxChunkSize == 5
MaxChunks == 4

(***************************************************************************)
(* Text.                                                                   *)
(***************************************************************************)
NL == "\n"
NoneTok == "<None>"
NoneArg == <<NoneTok>>

\* str.lower() on one token
LowerTok(t) ==
    CASE t = "Observation:" -> "observation:"
      [] t = "OBSERVATION:" -> "observation:"
      [] t = "Final:" -> "final:"
      [] t = "Action:" -> "action:"
      [] t = "Thought:" -> "thought:"
      [] t = "REFERENCE_IDS:" -> "reference_ids:"
      [] t = "Reference_Ids:" -> "reference_ids:"
      [] t = "None" -> "none"
      [] t = "NONE" -> "none"
      [] t = "Vector_Search" -> "vector_search"
      [] OTHER -> t

Lower(s) == [i \in 1..Len(s) |-> LowerTok(s[i])]

\* needle in s
Contains(s, needle) == \E i \in 1..Len(s) : s[i] = needle

\* s.find(needle): the first position of needle, 0 when absent
Find(s, needle) ==
    IF Contains(s, needle)
    THEN CHOOSE i \in 1..Len(s) :
            /\ s[i] = needle
            /\ \A j \in 1..(i - 1) : s[j] # needle
    ELSE 0

RECURSIVE LStrip(_)
LStrip(s) == IF s # <<>> /\ Head(s) = NL THEN LStrip(Tail(s)) ELSE s

RECURSIVE RStrip(_)
RStrip(s) ==
    IF s # <<>> /\ s[Len(s)] = NL THEN RStrip(SubSeq(s, 1, Len(s) - 1)) ELSE s

\* str.strip()
Strip(s) == RStrip(LStrip(s))

\* s.split(sep): always at least one piece
RECURSIVE Split(_, _)
Split(s, sep) ==
    IF Contains(s, sep)
    THEN LET i == Find(s, sep)
         IN <<SubSeq(s, 1, i - 1)>> \o Split(SubSeq(s, i + 1, Len(s)), sep)
    ELSE <<s>>

(***************************************************************************)
(* core/react.py: parse_action and the hallucination guard.                *)
(***************************************************************************)
SearchTools == {"vector_search", "keyword_search", "fuzzy_search"}

\* the lines of parse_action's loop from line i on
RECURSIVE ParseLines(_, _, _)
ParseLines(text, lines, i) ==
    IF i > Len(lines) THEN <<NoneTok, NoneArg>>
    ELSE LET line == Strip(lines[i]) IN
         IF line # <<>> /\ Head(line) = "Final:"
         THEN <<"finish", Strip(SubSeq(text, Find(text, "Final:") + 1, Len(text)))>>
         ELSE IF line # <<>> /\ Head(line) = "Action:" /\ Len(Tail(line)) >= 1
                 /\ LowerTok(Tail(line)[1]) \in SearchTools
         THEN <<LowerTok(Tail(line)[1]), Tail(Tail(line))>>
         ELSE ParseLines(text, lines, i + 1)

\* parse_action taking a Final: anywhere in the text for a Final: line
parse_action_anywhere(text) ==
    IF Contains(text, "Final:")
    THEN <<"finish", Strip(SubSeq(text, Find(text, "Final:") + 1, Len(text)))>>
    ELSE ParseLines(text, Split(Strip(text), NL), 1)

\* parse_action looking at the first line only
parse_action_first_line(text) ==
    ParseLines(text, <<Split(Strip(text), NL)[1]>>, 1)

parse_action(text) == ParseLines(text, Split(Strip(text), NL), 1)

\* react_agent, "Check if model hallucinated an Observation"
RemoveHallucinatedObservation(output) ==
    IF Contains(Lower(output), "Observation:")
    THEN Strip(Split(output, "Observation:")[1])
    ELSE output

(***************************************************************************)
(* search/reference.py.                                                    *)
(***************************************************************************)
IsRefMarker(t) == LowerTok(t) = "reference_ids:"

HasRefMarker(s) == \E i \in 1..Len(s) : IsRefMarker(s[i])

FirstRefMarker(s) ==
    CHOOSE i \in 1..Len(s) :
        /\ IsRefMarker(s[i])
        /\ \A j \in 1..(i - 1) : ~IsRefMarker(s[j])

\* re.search(r'REFERENCE_IDS:\s*(.+?)(?:\n|$)'): the marker, any white space
\* (line breaks too), then the rest of the first line that has text
RefMatch(s) ==
    IF ~HasRefMarker(s) THEN [found |-> FALSE, line |-> <<>>]
    ELSE LET rest == LStrip(SubSeq(s, FirstRefMarker(s) + 1, Len(s)))
         IN IF rest = <<>> THEN [found |-> FALSE, line |-> <<>>]
            ELSE [found |-> TRUE, line |-> Split(rest, NL)[1]]

\* re.sub with count=1: only the first marker goes with the rest of its line
RemoveRefLines_first(s) ==
    IF ~HasRefMarker(s) THEN s
    ELSE LET i == FirstRefMarker(s)
             rest == SubSeq(s, i + 1, Len(s))
         IN SubSeq(s, 1, i - 1) \o
            (IF Contains(rest, NL)
             THEN SubSeq(rest, Find(rest, NL) + 1, Len(rest))
             ELSE <<>>)

\* re.sub(r'REFERENCE_IDS:.*?(?:\n|$)', ''): every marker goes with the rest of
\* its line and the line break
RECURSIVE RemoveRefLines(_)
RemoveRefLines(s) ==
    IF ~HasRefMarker(s) THEN s
    ELSE LET i == FirstRefMarker(s)
             rest == SubSeq(s, i + 1, Len(s))
         IN SubSeq(s, 1, i - 1) \o
            (IF Contains(rest, NL)
             THEN RemoveRefLines(SubSeq(rest, Find(rest, NL) + 1, Len(rest)))
             ELSE <<>>)

NonEmpty(x) == x # <<>>

\* returns <<content, selected_ids>>; an id is the token sequence between commas
parse_reference_ids(llm_output) ==
    LET m == RefMatch(llm_output) IN
    IF m.found
    THEN <<Strip(RemoveRefLines(llm_output)),
           IF Lower(Strip(m.line)) # <<"none">>
           THEN SelectSeq(Split(Strip(m.line), ","), NonEmpty)
           ELSE <<>>>>
    ELSE <<llm_output, <<>>>>

\* the database: rows of the four tables
Users == {"u1", "u2"}
RefTypes == {"email", "schedule", "file", "attachment"}

Table(ref_type) ==
    CASE ref_type = "email" -> {[id |-> "1", user_id |-> "u1"], [id |-> "2", user_id |-> "u2"]}
      [] ref_type = "file" -> {[id |-> "1", user_id |-> "u1"], [id |-> "3", user_id |-> "u2"]}
      [] ref_type = "schedule" -> {[id |-> "2", user_id |-> "u1"]}
      [] ref_type = "attachment" -> {}
      [] OTHER -> {}

\* '_' in ref_id
HasUnderscore(t) ==
    t \in {"email_1", "email_2", "email_9", "file_1", "file_3", "schedule_2",
           "REFERENCE_IDS:", "Reference_Ids:", "reference_ids:",
           "vector_search", "keyword_search", "fuzzy_search", "Vector_Search",
           "web_search"}

\* ref_id.split('_', 1)
SplitRef(t) ==
    CASE t = "email_1" -> [type |-> "email", id |-> "1"]
      [] t = "email_2" -> [type |-> "email", id |-> "2"]
      [] t = "email_9" -> [type |-> "email", id |-> "9"]
      [] t = "file_1" -> [type |-> "file", id |-> "1"]
      [] t = "file_3" -> [type |-> "file", id |-> "3"]
      [] t = "schedule_2" -> [type |-> "schedule", id |-> "2"]
      [] OTHER -> [type |-> "?", id |-> "?"]

\* fetch_full_reference selecting the display columns only
fetch_full_reference_stripped(ref_type, ref_id) ==
    IF ref_type \in RefTypes /\ \E row \in Table(ref_type) : row.id = ref_id
    THEN <<[type |-> ref_type, id |-> ref_id]>>
    ELSE <<>>

\* Optional[Dict] as a sequence of at most one row; a fetch that raises is
\* caught and yields None
fetch_full_reference(ref_type, ref_id) ==
    IF /\ ref_type \in RefTypes
       /\ <<ref_type, ref_id>> \notin fetch_fails
       /\ \E row \in Table(ref_type) : row.id = ref_id
    THEN <<[type |-> ref_type] @@ (CHOOSE row \in Table(ref_type) : row.id = ref_id)>>
    ELSE <<>>

\* one pass of the loop of fetch_references_by_ids.  An id of several words
\* names no row and matches no hit: it yields nothing.
FetchOne(ref_id, raw_results) ==
    IF Len(ref_id) # 1 THEN <<>>
    ELSE IF HasUnderscore(ref_id[1])
    THEN fetch_full_reference(SplitRef(ref_id[1]).type, SplitRef(ref_id[1]).id)
    ELSE LET IsMatch(r) == r.id = ref_id[1]
             matching == SelectSeq(raw_results, IsMatch)
         IN IF matching # <<>>
            THEN fetch_full_reference(matching[1].type, ref_id[1])
            ELSE <<>>

\* fetch_references_by_ids giving up at the first id that yields no record
fetch_references_by_ids_abort(selected_ids, raw_results) ==
    LET n == Cardinality({k \in 1..Len(selected_ids) :
                 \A m \in 1..k : FetchOne(selected_ids[m], raw_results) # <<>>})
    IN [k \in 1..n |-> FetchOne(selected_ids[k], raw_results)[1]]

RECURSIVE fetch_references_by_ids(_, _)
fetch_references_by_ids(selected_ids, raw_results) ==
    IF selected_ids = <<>> THEN <<>>
    ELSE FetchOne(Head(selected_ids), raw_results)
         \o fetch_references_by_ids(Tail(selected_ids), raw_results)

(***************************************************************************)
(* Search hits and the two fusion routines.                                *)
(* A hit is [type, id, score, source]; a fused entry of                    *)
(* search_utils.combined_search is [type, id, score, sources].             *)
(***************************************************************************)
KeyOf(r) == <<r.type, r.id>>

KeysOf(rs) == [i \in 1..Len(rs) |-> KeyOf(rs[i])]

\* sorted(rs, key=score, reverse=True): stable, an element goes behind every
\* earlier element whose score is not lower
InsertDesc(sorted, x) ==
    LET n == Cardinality({i \in 1..Len(sorted) : sorted[i].score >= x.score})
    IN SubSeq(sorted, 1, n) \o <<x>> \o SubSeq(sorted, n + 1, Len(sorted))

RECURSIVE SortFrom(_, _)
SortFrom(done, rs) ==
    IF rs = <<>> THEN done ELSE SortFrom(InsertDesc(done, Head(rs)), Tail(rs))

SortDesc(rs) == SortFrom(<<>>, rs)

\* seq[:n]
Take(rs, n) == SubSeq(rs, 1, IF n < Len(rs) THEN n ELSE Len(rs))

\* deduplicate_results keeping the first hit of a pair
DedupStep_first(seen, r) ==
    IF \A i \in 1..Len(seen) : KeyOf(seen[i]) # KeyOf(r)
    THEN Append(seen, r)
    ELSE seen

\* core/rag.py deduplicate_results: one step of the loop over results
DedupStep(seen, r) ==
    IF \A i \in 1..Len(seen) : KeyOf(seen[i]) # KeyOf(r)
    THEN Append(seen, r)
    ELSE [i \in 1..Len(seen) |->
            IF KeyOf(seen[i]) = KeyOf(r) /\ r.score > seen[i].score
            THEN r ELSE seen[i]]

RECURSIVE DedupFrom(_, _)
DedupFrom(seen, rs) ==
    IF rs = <<>> THEN seen ELSE DedupFrom(DedupStep(seen, Head(rs)), Tail(rs))

deduplicate_results(results) == DedupFrom(<<>>, results)

\* core/rag.py combined_search returning every unique hit
RagCombinedSearch_untrimmed(v, k, f, topk) ==
    SortDesc(deduplicate_results(v \o k \o f))

\* core/rag.py combined_search, the hit list it returns as raw_results
RagCombinedSearch(v, k, f, topk) ==
    Take(SortDesc(deduplicate_results(v \o k \o f)), topk * 2)

Signals == {"vector", "keyword", "fuzzy"}

\* a failed signal's hits are fused all the same
Contribution_unguarded(rs, signal, failed) == rs

\* core/rag.combined_search, one try block: a signal that raises has extended
\* all_results by nothing
Contribution(rs, signal, failed) == IF signal \in failed THEN <<>> ELSE rs

\* core/rag.combined_search; failed = the signals whose try block raised
combined_search(v, k, f, topk, failed) ==
    RagCombinedSearch(Contribution(v, "vector", failed),
                      Contribution(k, "keyword", failed),
                      Contribution(f, "fuzzy", failed), topk)

\* search_utils.py combined_search
BaseVectorWeight == 6
BaseKeywordWeight == 4
BaseFuzzyWeight == 6
WeakVectorWeight == 3
WeakKeywordWeight == 4
WeakFuzzyWeight == 3
WeakThreshold == 5

\* weak_vectors
WeakVectors(v) == \A i \in 1..Len(v) : v[i].score < WeakThreshold

\* combined_search without the weak vector boost
ChooseWeights_base(v) ==
    [vector |-> BaseVectorWeight, keyword |-> BaseKeywordWeight,
     fuzzy |-> BaseFuzzyWeight]

\* "WEAK VECTOR BOOST": the weights the scores are combined with
ChooseWeights(v) ==
    IF WeakVectors(v)
    THEN [vector |-> WeakVectorWeight, keyword |-> WeakKeywordWeight,
          fuzzy |-> WeakFuzzyWeight]
    ELSE [vector |-> BaseVectorWeight, keyword |-> BaseKeywordWeight,
          fuzzy |-> BaseFuzzyWeight]

\* add_score(result, weight) on the dict combined_scores, kept in insertion order
AddScore(combined, r, weight) ==
    IF \A i \in 1..Len(combined) : KeyOf(combined[i]) # KeyOf(r)
    THEN Append(combined, [type |-> r.type, id |-> r.id,
                           score |-> r.score * weight, sources |-> <<r.source>>])
    ELSE [i \in 1..Len(combined) |->
            IF KeyOf(combined[i]) = KeyOf(r)
            THEN [combined[i] EXCEPT !.score = @ + r.score * weight,
                                     !.sources = Append(@, r.source)]
            ELSE combined[i]]

RECURSIVE AddAll(_, _, _)
AddAll(combined, rs, weight) ==
    IF rs = <<>> THEN combined
    ELSE AddAll(AddScore(combined, Head(rs), weight), Tail(rs), weight)

CombineScores(v, k, f, w) ==
    AddAll(AddAll(AddAll(<<>>, v, w.vector), k, w.keyword), f, w.fuzzy)

HasSource(r, src) == \E i \in 1..Len(r.sources) : r.sources[i] = src

AnyFrom(rs, src) == \E i \in 1..Len(rs) : HasSource(rs[i], src)

EntryOf(combined, key) ==
    combined[CHOOSE i \in 1..Len(combined) : KeyOf(combined[i]) = key]

\* "ENSURE 1 KEYWORD + 1 FUZZY": the forced insertions
ForceInsert(sorted_results, combined, k, f) ==
    LET with_keyword ==
            IF ~AnyFrom(sorted_results, "keyword") /\ k # <<>>
            THEN Append(sorted_results, EntryOf(combined, KeyOf(k[1])))
            ELSE sorted_results
    IN  IF ~AnyFrom(sorted_results, "fuzzy") /\ f # <<>>
        THEN Append(with_keyword, EntryOf(combined, KeyOf(f[1])))
        ELSE with_keyword

\* "Deduplicate again after forced insertions": the first of each key stays
RECURSIVE UniqueFrom(_, _)
UniqueFrom(unique, rs) ==
    IF rs = <<>> THEN unique
    ELSE UniqueFrom(
            IF \E i \in 1..Len(unique) : KeyOf(unique[i]) = KeyOf(Head(rs))
            THEN unique ELSE Append(unique, Head(rs)),
            Tail(rs))

\* "COMBINE SCORES" to "Final trim", with the weights w
FuseWith(v, k, f, topk, w) ==
    LET combined == CombineScores(v, k, f, w)
        sorted_results == SortDesc(combined)
    IN Take(UniqueFrom(<<>>, ForceInsert(sorted_results, combined, k, f)), topk)

WeightedCombinedSearch(v, k, f, topk) == FuseWith(v, k, f, topk, ChooseWeights(v))

(***************************************************************************)
(* The environment of one request: what the language model may answer and  *)
(* what the search primitives may return.                                  *)
(***************************************************************************)
ModelOutputs ==
    { <<"Thought:", "w">>,
      <<"Action:", "vector_search", "w">>,
      <<"Thought:", "w", NL, "Action:", "keyword_search", "w">>,
      <<"Action:", "fuzzy_search", "w", NL, "Observation:", "ID:", "email_2">>,
      <<"Action:", "web_search", "w">>,
      <<"Final:", "w", NL, "REFERENCE_IDS:", "email_1">>,
      <<"Final:", "w", NL, "REFERENCE_IDS:", "email_2", ",", "file_1">>,
      <<"Final:", "w", NL, "REFERENCE_IDS:", "none">>,
      <<"Final:", "w", "observation:", "ID:", "file_3", NL, "REFERENCE_IDS:", "1">>,
      <<"Thought:", "w", NL, "OBSERVATION:", "w">>,
      <<>>,
      <<"Thought:", "w", "Final:", "w">>,
      <<"Final:", "w">> }

ScoreVals == {3, 8}

HighScore == CHOOSE s \in ScoreVals : \A t \in ScoreVals : t <= s

\* the hits a search primitive can return to a user: rows of that user only
\* (every primitive filters on user_id)
HitsOf(user, source, scores) ==
    { [type |-> t, id |-> row.id, score |-> sc, source |-> source] :
        t \in RefTypes, row \in UNION {Table(x) : x \in RefTypes}, sc \in scores }
    \cap
    { h \in [type : RefTypes, id : {"1", "2", "3", "9"}, score : scores,
             source : {source}] :
        \E row \in Table(h.type) : row.id = h.id /\ row.user_id = user }

\* vector_search and keyword_search fill their list table by table
TypeRank(t) ==
    CASE t = "email" -> 1 [] t = "schedule" -> 2 [] t = "file" -> 3
      [] t = "attachment" -> 4

ByTable(rs) ==
    \A i \in 1..Len(rs), j \in 1..Len(rs) :
        i < j => TypeRank(rs[i].type) <= TypeRank(rs[j].type)

\* fuzzy_search: each row once, "GLOBAL SORTING", "Return top_k globally"
FuzzyShape(rs, topk) ==
    /\ Len(rs) <= topk
    /\ \A i \in 1..Len(rs), j \in 1..Len(rs) :
         i < j => /\ rs[i].score >= rs[j].score
                  /\ KeyOf(rs[i]) # KeyOf(rs[j])

\* the top_k of react_agent's searches
ReactTopK == 3

\* the shape of the list a search tool returns
HitShape(tool, hits) ==
    IF tool = "fuzzy_search" THEN FuzzyShape(hits, ReactTopK)
    ELSE ByTable(hits) /\ Len(hits) <= ReactTopK * Cardinality(RefTypes)

SeqsUpTo(S, n) == UNION { [1..m -> S] : m \in 0..n }

SourceOfTool(tool) ==
    CASE tool = "vector_search" -> "vector"
      [] tool = "keyword_search" -> "keyword"
      [] tool = "fuzzy_search" -> "fuzzy"

\* f"{result_type}_{result_id}"
SourceId(r) ==
    CASE KeyOf(r) = <<"email", "1">> -> "email_1"
      [] KeyOf(r) = <<"email", "2">> -> "email_2"
      [] KeyOf(r) = <<"file", "1">> -> "file_1"
      [] KeyOf(r) = <<"file", "3">> -> "file_3"
      [] KeyOf(r) = <<"schedule", "2">> -> "schedule_2"
      [] OTHER -> "unknown_0"

\* core/react.py execute_search_tool_with_results: the rendered observation
RECURSIVE FormatResults(_, _)
FormatResults(results, user) ==
    IF results = <<>> THEN <<>>
    ELSE LET r == Head(results)
             rest == FormatResults(Tail(results), user)
             one == IF \E row \in Table(r.type) : row.id = r.id /\ row.user_id = user
                    THEN <<"ID:", SourceId(r)>> ELSE <<>>
         IN IF one = <<>> THEN rest
            ELSE IF rest = <<>> THEN one ELSE one \o <<NL, NL>> \o rest

\* execute_search_tool_with_results reporting a failed search as an empty one
execute_search_tool_with_results_silent(results, failed, user) ==
    IF failed \/ results = <<>> THEN <<(<<"No results found.">>), <<>>>>
    ELSE <<FormatResults(results, user), results>>

\* <<observation, results>>; failed = the primitive or the embedding raised
execute_search_tool_with_results(results, failed, user) ==
    IF failed THEN <<(<<"[ERROR]">>), <<>>>>
    ELSE IF results = <<>> THEN <<(<<"No results found.">>), <<>>>>
    ELSE <<IF FormatResults(results, user) = <<>>
           THEN <<"No results found.">> ELSE FormatResults(results, user),
           results>>

\* search/__init__.py get_context_from_results: one part per hit whose row the
\* user owns, the parts joined by "\n---\n"
RECURSIVE get_context_from_results(_, _)
get_context_from_results(user, search_results) ==
    IF search_results = <<>> THEN <<>>
    ELSE LET r == Head(search_results)
             rest == get_context_from_results(user, Tail(search_results))
             part == IF \E row \in Table(r.type) : row.id = r.id /\ row.user_id = user
                     THEN <<"[ID:", SourceId(r), "]">> ELSE <<>>
         IN IF part = <<>> THEN rest
            ELSE IF rest = <<>> THEN part ELSE part \o <<NL, "---", NL>> \o rest

NoDataPrompt ==
    <<"Query:", "w", NL, "No data retrieved from user's personal records.", NL,
      "REFERENCE_IDS:", "none">>

\* core/rag.py build_rag_prompt
build_rag_prompt(context) ==
    IF context = <<>> \/ Strip(context) = <<>> THEN NoDataPrompt
    ELSE <<"Query:", "w", NL, "Retrieved Context:", NL>> \o context

\* the top_k of mixed_agent's tool calls: arguments.get("top_k", 10)
MixedTopK == 10

\* search/__init__.py execute_search_tool: the dict handed back to mixed_agent
execute_search_tool(raw_results, failed, user) ==
    IF failed
    THEN [ok |-> FALSE, context |-> <<"No results found">>, raw_results |-> <<>>]
    ELSE [ok |-> TRUE, context |-> get_context_from_results(user, raw_results),
          raw_results |-> raw_results]

FallbackAnswer == <<"Maximum search iterations reached.">>

Pending == [status |-> "pending", content |-> <<>>, references |-> <<>>]

\* memory_retrieval, "except Exception": JSONResponse({"error": str(e)}, 500)
ErrorResponse == [status |-> "error", content |-> <<>>, references |-> <<>>]

RagTopK == 5

(***************************************************************************)
(* memory_retrieval: one request in mode rag or react.                     *)
(***************************************************************************)
RetryIdle ==
    /\ max_retries = 0
    /\ attempt = 0
    /\ rpc = "idle"
    /\ attempts_made = 0
    /\ errors = <<>>
    /\ waits = <<>>

ServerIdle ==
    /\ qpc = <<>>
    /\ q_attempt = <<>>
    /\ loop_owner = 0

PoolIdle ==
    /\ call_pc = <<>>
    /\ call_user = <<>>
    /\ call_max_workers = <<>>
    /\ call_pending = <<>>
    /\ call_running = <<>>
    /\ active_workers = 0
    /\ user_workers = <<>>
    /\ global_lock = 0
    /\ tpc = <<>>
    /\ t_user = <<>>
    /\ t_origin = <<>>
    /\ t_result = <<>>

ChunkIdle ==
    /\ doc_text = <<>>
    /\ chunk_size = 0
    /\ overlap = 0
    /\ start = 0
    /\ chunks = <<>>
    /\ starts = <<>>
    /\ cpc = "idle"

FusionIdle ==
    /\ vector_results = <<>>
    /\ keyword_results = <<>>
    /\ fuzzy_results = <<>>
    /\ top_k = 0
    /\ fpc = "idle"
    /\ weighted_out = <<>>
    /\ weights_used = ChooseWeights(<<>>)
    /\ rag_out = <<>>
    /\ dedup_out = <<>>
    /\ failed_signals = {}

ResolverIdle ==
    /\ in_text = <<>>
    /\ in_ids = <<>>
    /\ in_hits = <<>>
    /\ fetch_fails = {}
    /\ ppc = "idle"
    /\ out_action = <<NoneTok, NoneArg>>
    /\ out_content = <<>>
    /\ out_refs = <<>>

Init ==
    /\ ChunkIdle
    /\ PoolIdle
    /\ ServerIdle
    /\ RetryIdle
    /\ mode \in {"rag", "mixed", "react"}
    /\ user_id \in Users
    /\ max_iterations \in 0..(IF mode = "mixed" THEN MaxToolIter ELSE MaxIter)
    /\ pc = IF mode = "react" THEN "react_loop" ELSE "combined_search"
    /\ iteration = 0
    /\ llm_calls = 0
    /\ agent_messages = <<>>
    /\ all_search_results = <<>>
    /\ outputs = <<>>
    /\ result = Pending
    /\ failed_services = {}
    /\ FusionIdle
    /\ ResolverIdle

\* react_agent going on to the next iteration without recording the output
ReactThought_dropping ==
    /\ pc = "react_loop"
    /\ iteration < max_iterations
    /\ \E raw \in ModelOutputs :
         /\ parse_action(RemoveHallucinatedObservation(raw))[1] = NoneTok
         /\ outputs' = Append(outputs, raw)
    /\ iteration' = iteration + 1
    /\ llm_calls' = llm_calls + 1
    /\ UNCHANGED <<mode, user_id, max_iterations, pc, agent_messages,
                   all_search_results, result, failed_services>>
    /\ UNCHANGED fusionVars
    /\ UNCHANGED resolverVars
    /\ UNCHANGED retryVars
    /\ UNCHANGED serverVars
    /\ UNCHANGED poolVars
    /\ UNCHANGED chunkVars

\* react_agent: an iteration whose output parses to no tool
ReactThought ==
    /\ pc = "react_loop"
    /\ iteration < max_iterations
    /\ \E raw \in ModelOutputs :
         LET output == RemoveHallucinatedObservation(raw) IN
         /\ parse_action(output)[1] = NoneTok
         /\ outputs' = Append(outputs, raw)
         /\ agent_messages' =
                Append(agent_messages, [role |-> "assistant", content |-> output])
    /\ iteration' = iteration + 1
    /\ llm_calls' = llm_calls + 1
    /\ UNCHANGED <<mode, user_id, max_iterations, pc, all_search_results, result,
                   failed_services>>
    /\ UNCHANGED fusionVars
    /\ UNCHANGED resolverVars
    /\ UNCHANGED retryVars
    /\ UNCHANGED serverVars
    /\ UNCHANGED poolVars
    /\ UNCHANGED chunkVars

\* react_agent: an iteration whose output parses to a Final: line
ReactFinish ==
    /\ pc = "react_loop"
    /\ iteration < max_iterations
    /\ \E raw \in ModelOutputs :
         LET output == RemoveHallucinatedObservation(raw)
             parsed == parse_reference_ids(Strip(parse_action(output)[2]))
         IN
         /\ parse_action(output)[1] = "finish"
         /\ outputs' = Append(outputs, raw)
         /\ result' = [status |-> "ok", content |-> parsed[1],
                       references |->
                           fetch_references_by_ids(parsed[2], all_search_results)]
    /\ iteration' = iteration + 1
    /\ llm_calls' = llm_calls + 1
    /\ pc' = "done"
    /\ UNCHANGED <<mode, user_id, max_iterations, agent_messages, all_search_results,
                   failed_services>>
    /\ UNCHANGED fusionVars
    /\ UNCHANGED resolverVars
    /\ UNCHANGED retryVars
    /\ UNCHANGED serverVars
    /\ UNCHANGED poolVars
    /\ UNCHANGED chunkVars

\* react_agent appending the observation ahead of the output it answers
ReactSearch_observation_first ==
    /\ pc = "react_loop"
    /\ iteration < max_iterations
    /\ \E raw \in ModelOutputs :
         LET output == RemoveHallucinatedObservation(raw)
             tool == parse_action(output)[1]
         IN
         /\ tool \in SearchTools
         /\ \E failed \in BOOLEAN, embed_failed \in BOOLEAN :
            \E hits \in SeqsUpTo(HitsOf(user_id, SourceOfTool(tool), {HighScore}), MaxHits) :
              LET res == execute_search_tool_with_results(hits, failed, user_id) IN
              /\ failed => hits = <<>>
              /\ embed_failed => failed /\ tool = "vector_search"
              /\ failed_services' =
                    failed_services \cup (IF embed_failed THEN {"embedding"} ELSE {})
              /\ HitShape(tool, hits)
              /\ all_search_results' = all_search_results \o res[2]
              /\ agent_messages' = agent_messages \o
                    << [role |-> "user", content |-> <<"Observation:">> \o res[1]],
                       [role |-> "assistant", content |-> output] >>
         /\ outputs' = Append(outputs, raw)
    /\ iteration' = iteration + 1
    /\ llm_calls' = llm_calls + 1
    /\ UNCHANGED <<mode, user_id, max_iterations, pc, result>>
    /\ UNCHANGED fusionVars
    /\ UNCHANGED resolverVars
    /\ UNCHANGED retryVars
    /\ UNCHANGED serverVars
    /\ UNCHANGED poolVars
    /\ UNCHANGED chunkVars

\* react_agent: an iteration whose output parses to a search action
ReactSearch ==
    /\ pc = "react_loop"
    /\ iteration < max_iterations
    /\ \E raw \in ModelOutputs :
         LET output == RemoveHallucinatedObservation(raw)
             tool == parse_action(output)[1]
         IN
         /\ tool \in SearchTools
         /\ \E failed \in BOOLEAN, embed_failed \in BOOLEAN :
            \E hits \in SeqsUpTo(HitsOf(user_id, SourceOfTool(tool), {HighScore}), MaxHits) :
              LET res == execute_search_tool_with_results(hits, failed, user_id) IN
              /\ failed => hits = <<>>
              /\ embed_failed => failed /\ tool = "vector_search"
              /\ failed_services' =
                    failed_services \cup (IF embed_failed THEN {"embedding"} ELSE {})
              /\ HitShape(tool, hits)
              /\ all_search_results' = all_search_results \o res[2]
              /\ agent_messages' = agent_messages \o
                    << [role |-> "assistant", content |-> output],
                       [role |-> "user", content |-> <<"Observation:">> \o res[1]] >>
         /\ outputs' = Append(outputs, raw)
    /\ iteration' = iteration + 1
    /\ llm_calls' = llm_calls + 1
    /\ UNCHANGED <<mode, user_id, max_iterations, pc, result>>
    /\ UNCHANGED fusionVars
    /\ UNCHANGED resolverVars
    /\ UNCHANGED retryVars
    /\ UNCHANGED serverVars
    /\ UNCHANGED poolVars
    /\ UNCHANGED chunkVars

\* react_agent: "Max iterations reached"
ReactExhausted ==
    /\ pc = "react_loop"
    /\ ~(iteration < max_iterations)
    /\ result' = [status |-> "ok", content |-> FallbackAnswer, references |-> <<>>]
    /\ pc' = "done"
    /\ UNCHANGED <<mode, user_id, max_iterations, iteration, llm_calls,
                   agent_messages, all_search_results, outputs, failed_services>>
    /\ UNCHANGED fusionVars
    /\ UNCHANGED resolverVars
    /\ UNCHANGED retryVars
    /\ UNCHANGED serverVars
    /\ UNCHANGED poolVars
    /\ UNCHANGED chunkVars

\* react_agent catching the failed completion and answering with the fallback
ReactLLMFail_swallowed ==
    /\ pc = "react_loop"
    /\ iteration < max_iterations
    /\ iteration' = iteration + 1
    /\ llm_calls' = llm_calls + 1
    /\ failed_services' = failed_services \cup {"llm"}
    /\ result' = [status |-> "ok", content |-> FallbackAnswer, references |-> <<>>]
    /\ pc' = "done"
    /\ UNCHANGED <<mode, user_id, max_iterations, agent_messages, all_search_results,
                   outputs>>
    /\ UNCHANGED fusionVars
    /\ UNCHANGED resolverVars
    /\ UNCHANGED retryVars
    /\ UNCHANGED serverVars
    /\ UNCHANGED poolVars
    /\ UNCHANGED chunkVars

\* react_agent: the completion raises; nothing in react_agent catches it
ReactLLMFail ==
    /\ pc = "react_loop"
    /\ iteration < max_iterations
    /\ iteration' = iteration + 1
    /\ llm_calls' = llm_calls + 1
    /\ failed_services' = failed_services \cup {"llm"}
    /\ result' = ErrorResponse
    /\ pc' = "done"
    /\ UNCHANGED <<mode, user_id, max_iterations, agent_messages, all_search_results,
                   outputs>>
    /\ UNCHANGED fusionVars
    /\ UNCHANGED resolverVars
    /\ UNCHANGED retryVars
    /\ UNCHANGED serverVars
    /\ UNCHANGED poolVars
    /\ UNCHANGED chunkVars

\* react_agent: the response carries no content (None); `output.lower()` raises
\* and nothing in react_agent catches it
ReactNoneContent ==
    /\ pc = "react_loop"
    /\ iteration < max_iterations
    /\ iteration' = iteration + 1
    /\ llm_calls' = llm_calls + 1
    /\ failed_services' = failed_services \cup {"no_content"}
    /\ result' = ErrorResponse
    /\ pc' = "done"
    /\ UNCHANGED <<mode, user_id, max_iterations, agent_messages, all_search_results,
                   outputs>>
    /\ UNCHANGED fusionVars
    /\ UNCHANGED resolverVars
    /\ UNCHANGED retryVars
    /\ UNCHANGED serverVars
    /\ UNCHANGED poolVars
    /\ UNCHANGED chunkVars

\* rag and mixed_agent: "Perform combined search", then build_rag_prompt
RagSearch ==
    /\ pc = "combined_search"
    /\ \E v \in SeqsUpTo(HitsOf(user_id, "vector", {HighScore}), MaxHits),
          k \in SeqsUpTo(HitsOf(user_id, "keyword", ScoreVals), MaxHits),
          f \in SeqsUpTo(HitsOf(user_id, "fuzzy", {HighScore}), MaxHits),
          failed \in SUBSET Signals, embed_failed \in BOOLEAN :
         LET final_results == combined_search(v, k, f, RagTopK, failed) IN
         /\ ByTable(v)
         /\ ByTable(k)
         /\ FuzzyShape(f, RagTopK)
         /\ "vector" \in failed => v = <<>>
         /\ "keyword" \in failed => k = <<>>
         /\ "fuzzy" \in failed => f = <<>>
         /\ embed_failed => "vector" \in failed
         /\ failed_services' =
               failed_services \cup (IF embed_failed THEN {"embedding"} ELSE {})
         /\ all_search_results' = final_results
         /\ agent_messages' =
               << [role |-> "user",
                   content |-> build_rag_prompt(
                                   get_context_from_results(user_id, final_results))] >>
    /\ pc' = IF mode = "mixed" THEN "mixed_loop" ELSE "rag_answer"
    /\ UNCHANGED <<mode, user_id, max_iterations, iteration, llm_calls, outputs,
                   result>>
    /\ UNCHANGED fusionVars
    /\ UNCHANGED resolverVars
    /\ UNCHANGED retryVars
    /\ UNCHANGED serverVars
    /\ UNCHANGED poolVars
    /\ UNCHANGED chunkVars

\* rag: the completion, parse_reference_ids and fetch_references_by_ids
RagAnswer ==
    /\ pc = "rag_answer"
    /\ \E raw \in ModelOutputs :
         LET parsed == parse_reference_ids(raw) IN
         /\ outputs' = Append(outputs, raw)
         /\ result' = [status |-> "ok", content |-> parsed[1],
                       references |->
                           fetch_references_by_ids(parsed[2], all_search_results)]
    /\ llm_calls' = llm_calls + 1
    /\ pc' = "done"
    /\ UNCHANGED <<mode, user_id, max_iterations, iteration, agent_messages,
                   all_search_results, failed_services>>
    /\ UNCHANGED fusionVars
    /\ UNCHANGED resolverVars
    /\ UNCHANGED retryVars
    /\ UNCHANGED serverVars
    /\ UNCHANGED poolVars
    /\ UNCHANGED chunkVars

\* rag: chat_completion raises (its retries are spent or the error is not
\* retryable); rag does not catch it
RagLLMFail ==
    /\ pc = "rag_answer"
    /\ llm_calls' = llm_calls + 1
    /\ failed_services' = failed_services \cup {"llm"}
    /\ result' = ErrorResponse
    /\ pc' = "done"
    /\ UNCHANGED <<mode, user_id, max_iterations, iteration, agent_messages,
                   all_search_results, outputs>>
    /\ UNCHANGED fusionVars
    /\ UNCHANGED resolverVars
    /\ UNCHANGED retryVars
    /\ UNCHANGED serverVars
    /\ UNCHANGED poolVars
    /\ UNCHANGED chunkVars

\* rag handing the missing content on as the answer
RagNoneContent_passed ==
    /\ pc = "rag_answer"
    /\ llm_calls' = llm_calls + 1
    /\ failed_services' = failed_services \cup {"no_content"}
    /\ result' = [status |-> "ok", content |-> NoneArg, references |-> <<>>]
    /\ pc' = "done"
    /\ UNCHANGED <<mode, user_id, max_iterations, iteration, agent_messages,
                   all_search_results, outputs>>
    /\ UNCHANGED fusionVars
    /\ UNCHANGED resolverVars
    /\ UNCHANGED retryVars
    /\ UNCHANGED serverVars
    /\ UNCHANGED poolVars
    /\ UNCHANGED chunkVars

\* rag: chat_completion returns None for a response without content;
\* parse_reference_ids raises on it (re.search) and rag does not catch it
RagNoneContent ==
    /\ pc = "rag_answer"
    /\ llm_calls' = llm_calls + 1
    /\ failed_services' = failed_services \cup {"no_content"}
    /\ result' = ErrorResponse
    /\ pc' = "done"
    /\ UNCHANGED <<mode, user_id, max_iterations, iteration, agent_messages,
                   all_search_results, outputs>>
    /\ UNCHANGED fusionVars
    /\ UNCHANGED resolverVars
    /\ UNCHANGED retryVars
    /\ UNCHANGED serverVars
    /\ UNCHANGED poolVars
    /\ UNCHANGED chunkVars

\* mixed_agent: an iteration whose response carries a tool call (one call per
\* response); the tool runs through execute_search_tool
MixedToolCall ==
    /\ pc = "mixed_loop"
    /\ iteration < max_iterations
    /\ \E function_name \in SearchTools, failed \in BOOLEAN, embed_failed \in BOOLEAN :
       \E hits \in SeqsUpTo(HitsOf(user_id, SourceOfTool(function_name), {HighScore}),
                             MaxHits) :
         LET tool_output == execute_search_tool(hits, failed, user_id) IN
         /\ failed => hits = <<>>
         /\ embed_failed => failed /\ function_name = "vector_search"
         /\ IF function_name = "fuzzy_search" THEN FuzzyShape(hits, MixedTopK)
            ELSE ByTable(hits)
         /\ failed_services' =
               failed_services \cup (IF embed_failed THEN {"embedding"} ELSE {})
         /\ all_search_results' = all_search_results \o tool_output.raw_results
         /\ agent_messages' = agent_messages \o
               << [role |-> "assistant", content |-> <<function_name>>],
                  [role |-> "tool", content |-> tool_output.context] >>
    /\ iteration' = iteration + 1
    /\ llm_calls' = llm_calls + 1
    /\ UNCHANGED <<mode, user_id, max_iterations, pc, outputs, result>>
    /\ UNCHANGED fusionVars
    /\ UNCHANGED resolverVars
    /\ UNCHANGED retryVars
    /\ UNCHANGED serverVars
    /\ UNCHANGED poolVars
    /\ UNCHANGED chunkVars

\* the final answers drawn for mixed_agent, which reads them with
\* parse_reference_ids only: the outputs with a REFERENCE_IDS: marker, one
\* without, and the empty one
FinalAnswers ==
    {o \in ModelOutputs : HasRefMarker(o)} \cup {<<"Final:", "w">>, <<>>}

\* mixed_agent: a response without tool calls is the final answer; after the
\* last iteration the answer comes from chat_completion instead
MixedAnswer ==
    /\ pc = "mixed_loop"
    /\ \E raw \in FinalAnswers :
         LET parsed == parse_reference_ids(raw) IN
         /\ outputs' = Append(outputs, raw)
         /\ result' = [status |-> "ok", content |-> parsed[1],
                       references |->
                           fetch_references_by_ids(parsed[2], all_search_results)]
    /\ iteration' = IF iteration < max_iterations THEN iteration + 1 ELSE iteration
    /\ llm_calls' = llm_calls + 1
    /\ pc' = "done"
    /\ UNCHANGED <<mode, user_id, max_iterations, agent_messages, all_search_results,
                   failed_services>>
    /\ UNCHANGED fusionVars
    /\ UNCHANGED resolverVars
    /\ UNCHANGED retryVars
    /\ UNCHANGED serverVars
    /\ UNCHANGED poolVars
    /\ UNCHANGED chunkVars

\* mixed_agent: the tool-calling completion raises out of its retry loop, or the
\* closing chat_completion raises; mixed_agent catches neither
MixedLLMFail ==
    /\ pc = "mixed_loop"
    /\ iteration' = IF iteration < max_iterations THEN iteration + 1 ELSE iteration
    /\ llm_calls' = llm_calls + 1
    /\ failed_services' = failed_services \cup {"llm"}
    /\ result' = ErrorResponse
    /\ pc' = "done"
    /\ UNCHANGED <<mode, user_id, max_iterations, agent_messages, all_search_results,
                   outputs>>
    /\ UNCHANGED fusionVars
    /\ UNCHANGED resolverVars
    /\ UNCHANGED retryVars
    /\ UNCHANGED serverVars
    /\ UNCHANGED poolVars
    /\ UNCHANGED chunkVars

\* mixed_agent: the final response (no tool calls, or the closing
\* chat_completion) carries no content; parse_reference_ids raises on None
MixedNoneContent ==
    /\ pc = "mixed_loop"
    /\ iteration' = IF iteration < max_iterations THEN iteration + 1 ELSE iteration
    /\ llm_calls' = llm_calls + 1
    /\ failed_services' = failed_services \cup {"no_content"}
    /\ result' = ErrorResponse
    /\ pc' = "done"
    /\ UNCHANGED <<mode, user_id, max_iterations, agent_messages, all_search_results,
                   outputs>>
    /\ UNCHANGED fusionVars
    /\ UNCHANGED resolverVars
    /\ UNCHANGED retryVars
    /\ UNCHANGED serverVars
    /\ UNCHANGED poolVars
    /\ UNCHANGED chunkVars

\* mixed_agent: a tool call whose arguments are not valid JSON; json.loads
\* raises before the tool runs and mixed_agent does not catch it
MixedBadArguments ==
    /\ pc = "mixed_loop"
    /\ iteration < max_iterations
    /\ iteration' = iteration + 1
    /\ llm_calls' = llm_calls + 1
    /\ failed_services' = failed_services \cup {"bad_arguments"}
    /\ result' = ErrorResponse
    /\ pc' = "done"
    /\ UNCHANGED <<mode, user_id, max_iterations, agent_messages, all_search_results,
                   outputs>>
    /\ UNCHANGED fusionVars
    /\ UNCHANGED resolverVars
    /\ UNCHANGED retryVars
    /\ UNCHANGED serverVars
    /\ UNCHANGED poolVars
    /\ UNCHANGED chunkVars

\* every completion of the request so far returned a response the agents could
\* read: none raised, none came without content or with unreadable arguments
ModelAnswered == failed_services \cap {"llm", "no_content", "bad_arguments"} = {}

Next ==
    \/ ReactThought
    \/ ReactFinish
    \/ ReactSearch
    \/ ReactExhausted
    \/ ReactLLMFail
    \/ RagSearch
    \/ RagAnswer
    \/ RagLLMFail
    \/ MixedToolCall
    \/ MixedAnswer
    \/ MixedLLMFail
    \/ ReactNoneContent
    \/ RagNoneContent
    \/ MixedNoneContent
    \/ MixedBadArguments

Spec == Init /\ [][Next]_vars

(***************************************************************************)
(* The fusion routines on their own: the three signals' hit lists are      *)
(* drawn, then each routine is applied to them.                            *)
(***************************************************************************)
RetrievalIdle ==
    /\ mode = "none"
    /\ user_id = "u1"
    /\ max_iterations = 0
    /\ pc = "idle"
    /\ iteration = 0
    /\ llm_calls = 0
    /\ agent_messages = <<>>
    /\ all_search_results = <<>>
    /\ outputs = <<>>
    /\ result = Pending
    /\ failed_services = {}

FusionInit ==
    /\ ChunkIdle
    /\ PoolIdle
    /\ ServerIdle
    /\ RetryIdle
    /\ RetrievalIdle
    /\ ResolverIdle
    /\ top_k \in 1..MaxTopK
    /\ vector_results \in SeqsUpTo(HitsOf("u1", "vector", ScoreVals), MaxVectorHits)
    /\ keyword_results \in SeqsUpTo(HitsOf("u1", "keyword", ScoreVals), MaxKeywordHits)
    /\ fuzzy_results \in SeqsUpTo(HitsOf("u1", "fuzzy", ScoreVals), MaxFuzzyHits)
    /\ ByTable(vector_results)
    /\ ByTable(keyword_results)
    /\ FuzzyShape(fuzzy_results, top_k)
    /\ fpc = "input"
    /\ weighted_out = <<>>
    /\ weights_used = ChooseWeights(<<>>)
    /\ rag_out = <<>>
    /\ dedup_out = <<>>
    /\ failed_signals = {}

\* deduplicate_results on all_results
Deduplicate ==
    /\ fpc = "input"
    /\ dedup_out' =
          deduplicate_results(vector_results \o keyword_results \o fuzzy_results)
    /\ fpc' = "deduplicated"
    /\ UNCHANGED <<vector_results, keyword_results, fuzzy_results, top_k,
                   weighted_out, weights_used, rag_out, failed_signals>>
    /\ UNCHANGED retrievalVars
    /\ UNCHANGED resolverVars
    /\ UNCHANGED retryVars
    /\ UNCHANGED serverVars
    /\ UNCHANGED poolVars
    /\ UNCHANGED chunkVars

\* search_utils.combined_search on the drawn lists
FuseWeighted ==
    /\ fpc = "deduplicated"
    /\ weights_used' = ChooseWeights(vector_results)
    /\ weighted_out' =
          WeightedCombinedSearch(vector_results, keyword_results, fuzzy_results, top_k)
    /\ fpc' = "weighted"
    /\ UNCHANGED <<vector_results, keyword_results, fuzzy_results, top_k, rag_out,
                   dedup_out, failed_signals>>
    /\ UNCHANGED retrievalVars
    /\ UNCHANGED resolverVars
    /\ UNCHANGED retryVars
    /\ UNCHANGED serverVars
    /\ UNCHANGED poolVars
    /\ UNCHANGED chunkVars

\* core/rag.combined_search on the drawn lists
FuseRag ==
    /\ fpc = "weighted"
    /\ \E failed \in SUBSET Signals :
         /\ failed_signals' = failed
         /\ rag_out' = combined_search(vector_results, keyword_results,
                                       fuzzy_results, top_k, failed)
    /\ fpc' = "done"
    /\ UNCHANGED <<vector_results, keyword_results, fuzzy_results, top_k,
                   weighted_out, weights_used, dedup_out>>
    /\ UNCHANGED retrievalVars
    /\ UNCHANGED resolverVars
    /\ UNCHANGED retryVars
    /\ UNCHANGED serverVars
    /\ UNCHANGED poolVars
    /\ UNCHANGED chunkVars

FusionNext ==
    \/ Deduplicate
    \/ FuseWeighted
    \/ FuseRag

SpecFusion == FusionInit /\ [][FusionNext]_vars

(***************************************************************************)
(* The parsers and the reference resolver on their own: a model output or  *)
(* a list of ids is drawn, then parse_action, parse_reference_ids and      *)
(* fetch_references_by_ids are applied to it.                              *)
(***************************************************************************)
ActionAlphabet == {"Final:", "Action:", "keyword_search", "web_search", "w", NL}

RefAlphabet == {"REFERENCE_IDS:", "reference_ids:", "none", "NONE", "w", NL}

\* a closing line that cites two existing rows, with and without a final
\* line break
CitationTails ==
    { <<"REFERENCE_IDS:", "email_1", ",", "file_3">>,
      <<"REFERENCE_IDS:", "email_1", ",", "file_3", NL>> }

ActionTexts == SeqsUpTo(ActionAlphabet, MaxTextLen)

RefTexts ==
    SeqsUpTo(RefAlphabet, MaxTextLen)
    \cup { p \o t : p \in SeqsUpTo(RefAlphabet, MaxPrefixLen), t \in CitationTails }

\* ids a model may select: two rows that exist, a row that does not, a bare id
\* and a word with an underscore that names no table
IdVals == { <<"email_1">>, <<"file_3">>, <<"email_9">>, <<"1">>, <<"web_search">> }

FailableRows == { <<"email", "1">>, <<"file", "1">>, <<"file", "3">> }

ResolverInit ==
    /\ ChunkIdle
    /\ PoolIdle
    /\ ServerIdle
    /\ RetryIdle
    /\ RetrievalIdle
    /\ FusionIdle
    /\ ppc \in {"text", "llm_output", "selected_ids"}
    /\ in_text \in CASE ppc = "text" -> ActionTexts
                   [] ppc = "llm_output" -> RefTexts
                   [] OTHER -> {<<>>}
    /\ in_ids \in IF ppc = "selected_ids" THEN SeqsUpTo(IdVals, MaxIds) ELSE {<<>>}
    /\ in_hits \in IF ppc = "selected_ids"
                  THEN SeqsUpTo(HitsOf("u1", "vector", {HighScore}), MaxHits)
                  ELSE {<<>>}
    /\ fetch_fails \in IF ppc = "selected_ids" THEN SUBSET FailableRows ELSE {{}}
    /\ out_action = <<NoneTok, NoneArg>>
    /\ out_content = <<>>
    /\ out_refs = <<>>

\* parse_action on the drawn text
ParseAction ==
    /\ ppc = "text"
    /\ out_action' = parse_action(in_text)
    /\ ppc' = "action"
    /\ UNCHANGED <<in_text, in_ids, in_hits, fetch_fails, out_content, out_refs>>
    /\ UNCHANGED retrievalVars
    /\ UNCHANGED fusionVars
    /\ UNCHANGED retryVars
    /\ UNCHANGED serverVars
    /\ UNCHANGED poolVars
    /\ UNCHANGED chunkVars

\* parse_reference_ids on the drawn output
ParseReferenceIds ==
    /\ ppc = "llm_output"
    /\ out_content' = parse_reference_ids(in_text)[1]
    /\ in_ids' = parse_reference_ids(in_text)[2]
    /\ ppc' = "parsed_ids"
    /\ UNCHANGED <<in_text, in_hits, fetch_fails, out_action, out_refs>>
    /\ UNCHANGED retrievalVars
    /\ UNCHANGED fusionVars
    /\ UNCHANGED retryVars
    /\ UNCHANGED serverVars
    /\ UNCHANGED poolVars
    /\ UNCHANGED chunkVars

\* fetch_references_by_ids on the drawn or the parsed ids
FetchReferencesByIds ==
    /\ ppc \in {"selected_ids", "parsed_ids"}
    /\ out_refs' = fetch_references_by_ids(in_ids, in_hits)
    /\ ppc' = IF ppc = "parsed_ids" THEN "round_trip" ELSE "references"
    /\ UNCHANGED <<in_text, in_ids, in_hits, fetch_fails, out_action, out_content>>
    /\ UNCHANGED retrievalVars
    /\ UNCHANGED fusionVars
    /\ UNCHANGED retryVars
    /\ UNCHANGED serverVars
    /\ UNCHANGED poolVars
    /\ UNCHANGED chunkVars

ResolverNext ==
    \/ ParseAction
    \/ ParseReferenceIds
    \/ FetchReferencesByIds

SpecResolver == ResolverInit /\ [][ResolverNext]_vars

(***************************************************************************)
(* api/openai_client.py chat_completion: one call, attempt by attempt.     *)
(***************************************************************************)

\* the codes chat_completion looks for in str(e)
RetryableCodes == {"504", "503", "429", "500", "timeout", "rate_limit"}

\* `code in word` for the words of the modelled error texts
WordContains(word, code) ==
    \/ word = code
    \/ word = "req_15005" /\ code = "500"
    \/ word = "rate_limit_exceeded" /\ code = "rate_limit"

\* str(e) of the errors a completion can raise
ErrorTexts ==
    { <<"Error", "code:", "504">>,
      <<"Error", "code:", "503">>,
      <<"Error", "code:", "429", "rate_limit_exceeded">>,
      <<"Error", "code:", "500">>,
      <<"Connection", "timeout">>,
      <<"Request", "timed", "out.">>,
      <<"Error", "code:", "401", "invalid_api_key">>,
      <<"Error", "code:", "400", "req_15005">>,
      <<"Timeout">> }

\* any(code in error_str for code in [...])
is_retryable(error_str) ==
    \E code \in RetryableCodes : \E i \in 1..Len(error_str) :
        WordContains(error_str[i], code)

RECURSIVE Pow2(_)
Pow2(n) == IF n = 0 THEN 1 ELSE 2 * Pow2(n - 1)

\* wait_time = 1 * (2 ** attempt)
wait_time(n) == 1 * Pow2(n)

RetryInit ==
    /\ ChunkIdle
    /\ PoolIdle
    /\ ServerIdle
    /\ RetrievalIdle
    /\ FusionIdle
    /\ ResolverIdle
    /\ max_retries \in 1..MaxRetries
    /\ attempt = 0
    /\ rpc = "create"
    /\ attempts_made = 0
    /\ errors = <<>>
    /\ waits = <<>>

\* the completion succeeds: `return response.choices[0].message.content`
CreateReturns ==
    /\ rpc = "create"
    /\ attempt < max_retries
    /\ attempts_made' = attempts_made + 1
    /\ rpc' = "returned"
    /\ UNCHANGED <<max_retries, attempt, errors, waits>>
    /\ UNCHANGED retrievalVars
    /\ UNCHANGED fusionVars
    /\ UNCHANGED resolverVars
    /\ UNCHANGED serverVars
    /\ UNCHANGED poolVars
    /\ UNCHANGED chunkVars

\* chat_completion backing off after any error while attempts remain
CreateRaises_any_error ==
    /\ rpc = "create"
    /\ attempt < max_retries
    /\ \E error_str \in ErrorTexts :
         /\ errors' = Append(errors, error_str)
         /\ rpc' = IF attempt < max_retries - 1
                   THEN "sleep" ELSE "raised"
    /\ attempts_made' = attempts_made + 1
    /\ UNCHANGED <<max_retries, attempt, waits>>
    /\ UNCHANGED retrievalVars
    /\ UNCHANGED fusionVars
    /\ UNCHANGED resolverVars
    /\ UNCHANGED serverVars
    /\ UNCHANGED poolVars
    /\ UNCHANGED chunkVars

\* the completion raises: `except Exception as e`, then back off or re-raise
CreateRaises ==
    /\ rpc = "create"
    /\ attempt < max_retries
    /\ \E error_str \in ErrorTexts :
         /\ errors' = Append(errors, error_str)
         /\ rpc' = IF attempt < max_retries - 1 /\ is_retryable(error_str)
                   THEN "sleep" ELSE "raised"
    /\ attempts_made' = attempts_made + 1
    /\ UNCHANGED <<max_retries, attempt, waits>>
    /\ UNCHANGED retrievalVars
    /\ UNCHANGED fusionVars
    /\ UNCHANGED resolverVars
    /\ UNCHANGED serverVars
    /\ UNCHANGED poolVars
    /\ UNCHANGED chunkVars

\* time.sleep(wait_time), then the next pass of `for attempt in range(max_retries)`
Backoff ==
    /\ rpc = "sleep"
    /\ waits' = Append(waits, wait_time(attempt))
    /\ attempt' = attempt + 1
    /\ rpc' = "create"
    /\ UNCHANGED <<max_retries, attempts_made, errors>>
    /\ UNCHANGED retrievalVars
    /\ UNCHANGED fusionVars
    /\ UNCHANGED resolverVars
    /\ UNCHANGED serverVars
    /\ UNCHANGED poolVars
    /\ UNCHANGED chunkVars

RetryNext ==
    \/ CreateReturns
    \/ CreateRaises
    \/ Backoff

\* chat_completion is straight-line code around one loop: a requested
\* completion comes back or raises (the client times a request out), and
\* time.sleep returns; hence weak fairness on its steps
SpecRetry ==
    /\ RetryInit
    /\ [][RetryNext]_vars
    /\ WF_vars(RetryNext)

(***************************************************************************)
(* app.py: concurrent memory_retrieval requests (rag mode) on the one      *)
(* event loop of `uvicorn.run(app, ...)`.  A coroutine gives the loop up   *)
(* only at an await that suspends; a synchronous call keeps the thread.    *)
(***************************************************************************)
Queries == 1..NumQueries

\* the calls made synchronously from the coroutine: embed_text, the search
\* primitives, time.sleep(wait_time), fetch_full_reference
SyncCalls == {"embedding", "searching", "backoff", "fetching"}

\* inside a call to an external capability, or in a retry backoff
InExternalCall(q) == qpc[q] \in SyncCalls \cup {"llm_wait"}

\* the query needs nothing but the event loop to go on
Runnable(q) == qpc[q] \in {"arrived", "llm_returned", "llm_raised"}

ServerInit ==
    /\ ChunkIdle
    /\ PoolIdle
    /\ RetryIdle
    /\ RetrievalIdle
    /\ FusionIdle
    /\ ResolverIdle
    /\ qpc = [q \in Queries |-> "arrived"]
    /\ q_attempt = [q \in Queries |-> 0]
    /\ loop_owner = 0

\* the event loop picks a runnable coroutine and runs it up to its next call:
\* a new request starts combined_search with embed_text; a returned completion
\* is followed by the record fetches; a raised one by the backoff or a re-raise
Resume(q) ==
    /\ loop_owner = 0
    /\ Runnable(q)
    /\ qpc' = [qpc EXCEPT ![q] =
                 CASE qpc[q] = "arrived" -> "embedding"
                   [] qpc[q] = "llm_returned" -> "fetching"
                   [] qpc[q] = "llm_raised" ->
                        IF q_attempt[q] < MaxRetries - 1 THEN "backoff" ELSE "done"]
    /\ loop_owner' = IF qpc'[q] = "done" THEN 0 ELSE q
    /\ UNCHANGED q_attempt
    /\ UNCHANGED retrievalVars
    /\ UNCHANGED fusionVars
    /\ UNCHANGED resolverVars
    /\ UNCHANGED retryVars
    /\ UNCHANGED poolVars
    /\ UNCHANGED chunkVars

\* a synchronous call returns to the coroutine, which runs on to its next call
\* without leaving the thread; only `await ...create(...)` suspends it, and the
\* finished handler gives the loop back
SyncCallReturns(q) ==
    /\ loop_owner = q
    /\ qpc[q] \in SyncCalls
    /\ qpc' = [qpc EXCEPT ![q] =
                 CASE qpc[q] = "embedding" -> "searching"
                   [] qpc[q] = "searching" -> "llm_wait"
                   [] qpc[q] = "backoff" -> "llm_wait"
                   [] qpc[q] = "fetching" -> "done"]
    /\ q_attempt' = [q_attempt EXCEPT ![q] = IF qpc[q] = "backoff" THEN @ + 1 ELSE @]
    /\ loop_owner' = IF qpc'[q] \in SyncCalls THEN q ELSE 0
    /\ UNCHANGED retrievalVars
    /\ UNCHANGED fusionVars
    /\ UNCHANGED resolverVars
    /\ UNCHANGED retryVars
    /\ UNCHANGED poolVars
    /\ UNCHANGED chunkVars

\* the awaited completion finishes, with a response or with an error; the
\* coroutine becomes runnable again
CompletionEnds(q) ==
    /\ qpc[q] = "llm_wait"
    /\ \E outcome \in {"llm_returned", "llm_raised"} :
         qpc' = [qpc EXCEPT ![q] = outcome]
    /\ UNCHANGED <<q_attempt, loop_owner>>
    /\ UNCHANGED retrievalVars
    /\ UNCHANGED fusionVars
    /\ UNCHANGED resolverVars
    /\ UNCHANGED retryVars
    /\ UNCHANGED poolVars
    /\ UNCHANGED chunkVars

ServerNext ==
    \E q \in Queries :
        \/ Resume(q)
        \/ SyncCallReturns(q)
        \/ CompletionEnds(q)

SpecServer == ServerInit /\ [][ServerNext]_vars

(***************************************************************************)
(* thread_pool_manager.py GlobalThreadPoolManager: concurrent calls of     *)
(* process_parallel, and threads calling acquire_worker and                *)
(* can_acquire_worker.                                                     *)
(***************************************************************************)
MAX_WORKERS_PER_USER == 5
MAX_TOTAL_WORKERS == 20

Calls == 1..NumCalls
Threads == 1..NumThreads

\* max_workers: int = None
NoneWorkers == 0

\* the max_workers arguments drawn: the default, fewer than the limit, more
MaxWorkersArgs == {NoneWorkers, 2, MAX_WORKERS_PER_USER + 2}

Min(a, b) == IF a < b THEN a ELSE b

\* "Limit to available workers": the size of the call's ThreadPoolExecutor
PoolSize(max_workers) ==
    Min(IF max_workers = NoneWorkers THEN MAX_WORKERS_PER_USER ELSE max_workers,
        MAX_WORKERS_PER_USER)

PoolInit ==
    /\ ChunkIdle
    /\ RetrievalIdle
    /\ FusionIdle
    /\ ResolverIdle
    /\ RetryIdle
    /\ ServerIdle
    /\ call_pc = [c \in Calls |-> "idle"]
    /\ call_user = [c \in Calls |-> "u1"]
    /\ call_max_workers = [c \in Calls |-> 0]
    /\ call_pending = [c \in Calls |-> 0]
    /\ call_running = [c \in Calls |-> 0]
    /\ active_workers = 0
    /\ user_workers = [u \in Users |-> 0]
    /\ global_lock = 0
    /\ tpc = [t \in Threads |-> "idle"]
    /\ t_user = [t \in Threads |-> "u1"]
    /\ t_origin = [t \in Threads |-> "none"]
    /\ t_result = [t \in Threads |-> "none"]

managerVars == <<active_workers, user_workers, global_lock, tpc, t_user, t_origin,
                 t_result>>
callVars == <<call_pc, call_user, call_max_workers, call_pending, call_running>>

\* process_parallel is entered: no items returns [] at once; otherwise the
\* executor is created and every item submitted
ProcessParallel(c) ==
    /\ call_pc[c] = "idle"
    /\ \E user \in Users, n \in 0..MaxItems, max_workers \in MaxWorkersArgs :
         /\ call_user' = [call_user EXCEPT ![c] = user]
         /\ call_pc' = [call_pc EXCEPT ![c] = IF n = 0 THEN "returned" ELSE "executor"]
         /\ call_max_workers' =
               [call_max_workers EXCEPT ![c] = IF n = 0 THEN 0 ELSE PoolSize(max_workers)]
         /\ call_pending' = [call_pending EXCEPT ![c] = n]
    /\ UNCHANGED call_running
    /\ UNCHANGED managerVars
    /\ UNCHANGED retrievalVars
    /\ UNCHANGED fusionVars
    /\ UNCHANGED resolverVars
    /\ UNCHANGED retryVars
    /\ UNCHANGED serverVars
    /\ UNCHANGED chunkVars

\* a worker thread of the call's executor takes a submitted item; the executor
\* keeps at most max_workers threads
WorkerTakesItem(c) ==
    /\ call_pc[c] = "executor"
    /\ call_pending[c] > 0
    /\ call_running[c] < call_max_workers[c]
    /\ call_pending' = [call_pending EXCEPT ![c] = @ - 1]
    /\ call_running' = [call_running EXCEPT ![c] = @ + 1]
    /\ UNCHANGED <<call_pc, call_user, call_max_workers>>
    /\ UNCHANGED managerVars
    /\ UNCHANGED retrievalVars
    /\ UNCHANGED fusionVars
    /\ UNCHANGED resolverVars
    /\ UNCHANGED retryVars
    /\ UNCHANGED serverVars
    /\ UNCHANGED chunkVars

\* worker_wrapper returns
WorkerFinishesItem(c) ==
    /\ call_pc[c] = "executor"
    /\ call_running[c] > 0
    /\ call_running' = [call_running EXCEPT ![c] = @ - 1]
    /\ UNCHANGED <<call_pc, call_user, call_max_workers, call_pending>>
    /\ UNCHANGED managerVars
    /\ UNCHANGED retrievalVars
    /\ UNCHANGED fusionVars
    /\ UNCHANGED resolverVars
    /\ UNCHANGED retryVars
    /\ UNCHANGED serverVars
    /\ UNCHANGED chunkVars

\* every future completed: the `with` block ends and process_parallel returns
ProcessParallelReturns(c) ==
    /\ call_pc[c] = "executor"
    /\ call_pending[c] = 0
    /\ call_running[c] = 0
    /\ call_pc' = [call_pc EXCEPT ![c] = "returned"]
    /\ UNCHANGED <<call_user, call_max_workers, call_pending, call_running>>
    /\ UNCHANGED managerVars
    /\ UNCHANGED retrievalVars
    /\ UNCHANGED fusionVars
    /\ UNCHANGED resolverVars
    /\ UNCHANGED retryVars
    /\ UNCHANGED serverVars
    /\ UNCHANGED chunkVars

\* a thread calls acquire_worker(user_id) or can_acquire_worker(user_id) and
\* arrives at the method's `with self._global_lock:`
CallManager(t) ==
    /\ tpc[t] = "idle"
    /\ \E user \in Users, method \in {"acquire_worker", "can_acquire_worker"} :
         /\ t_user' = [t_user EXCEPT ![t] = user]
         /\ t_origin' = [t_origin EXCEPT ![t] = method]
         /\ tpc' = [tpc EXCEPT ![t] = IF method = "acquire_worker"
                                       THEN "acquire_with" ELSE "can_acquire_with"]
    /\ UNCHANGED <<active_workers, user_workers, global_lock, t_result>>
    /\ UNCHANGED callVars
    /\ UNCHANGED retrievalVars
    /\ UNCHANGED fusionVars
    /\ UNCHANGED resolverVars
    /\ UNCHANGED retryVars
    /\ UNCHANGED serverVars
    /\ UNCHANGED chunkVars

\* acquire_worker takes the lock and, holding it, calls can_acquire_worker
AcquireEnter(t) ==
    /\ tpc[t] = "acquire_with"
    /\ global_lock = 0
    /\ global_lock' = t
    /\ tpc' = [tpc EXCEPT ![t] = "can_acquire_with"]
    /\ UNCHANGED <<active_workers, user_workers, t_user, t_origin, t_result>>
    /\ UNCHANGED callVars
    /\ UNCHANGED retrievalVars
    /\ UNCHANGED fusionVars
    /\ UNCHANGED resolverVars
    /\ UNCHANGED retryVars
    /\ UNCHANGED serverVars
    /\ UNCHANGED chunkVars

\* can_acquire_worker takes the lock: threading.Lock() is not reentrant, it is
\* granted only while nobody holds it, the caller included
CanAcquireEnter(t) ==
    /\ tpc[t] = "can_acquire_with"
    /\ global_lock = 0
    /\ global_lock' = t
    /\ tpc' = [tpc EXCEPT ![t] = "can_acquire_body"]
    /\ UNCHANGED <<active_workers, user_workers, t_user, t_origin, t_result>>
    /\ UNCHANGED callVars
    /\ UNCHANGED retrievalVars
    /\ UNCHANGED fusionVars
    /\ UNCHANGED resolverVars
    /\ UNCHANGED retryVars
    /\ UNCHANGED serverVars
    /\ UNCHANGED chunkVars

\* can_acquire_worker's answer from the two counts
can_acquire_worker(user) ==
    IF active_workers >= MAX_TOTAL_WORKERS THEN FALSE
    ELSE IF user_workers[user] >= MAX_WORKERS_PER_USER THEN FALSE
    ELSE TRUE

Bool(b) == IF b THEN "True" ELSE "False"

\* can_acquire_worker answers and leaves its `with` block; called by
\* acquire_worker, that method goes on: it counts the worker when the answer
\* is True and returns the answer
CanAcquireReturns(t) ==
    /\ tpc[t] = "can_acquire_body"
    /\ global_lock = t
    /\ global_lock' = 0
    /\ t_result' = [t_result EXCEPT ![t] = Bool(can_acquire_worker(t_user[t]))]
    /\ tpc' = [tpc EXCEPT ![t] = "returned"]
    /\ IF t_origin[t] = "acquire_worker" /\ can_acquire_worker(t_user[t])
       THEN /\ active_workers' = active_workers + 1
            /\ user_workers' = [user_workers EXCEPT ![t_user[t]] = @ + 1]
       ELSE UNCHANGED <<active_workers, user_workers>>
    /\ UNCHANGED <<t_user, t_origin>>
    /\ UNCHANGED callVars
    /\ UNCHANGED retrievalVars
    /\ UNCHANGED fusionVars
    /\ UNCHANGED resolverVars
    /\ UNCHANGED retryVars
    /\ UNCHANGED serverVars
    /\ UNCHANGED chunkVars

CallStep(c) ==
    \/ ProcessParallel(c)
    \/ WorkerTakesItem(c)
    \/ WorkerFinishesItem(c)
    \/ ProcessParallelReturns(c)

ThreadStep(t) ==
    \/ CallManager(t)
    \/ AcquireEnter(t)
    \/ CanAcquireEnter(t)
    \/ CanAcquireReturns(t)

\* concurrent calls of process_parallel
PoolNext == \E c \in Calls : CallStep(c)

SpecPool == PoolInit /\ [][PoolNext]_vars

\* threads calling acquire_worker and can_acquire_worker
ManagerNext == \E t \in Threads : ThreadStep(t)

\* a thread that can run is run by the scheduler, and a free lock is granted
\* to a thread waiting for it: weak fairness on every thread's next step.
\* Each thread makes one call, so no thread is kept from the lock by an
\* endless stream of other callers.
SpecManager ==
    /\ PoolInit
    /\ [][ManagerNext]_vars
    /\ \A t \in Threads : WF_vars(ThreadStep(t))

(***************************************************************************)
(* processing/documents.py chunk_text, one pass of its loop per step.      *)
(***************************************************************************)
Chars == {"a", ".", " ", "\n"}

\* a slice index as Python resolves it for a string of length n
SliceIndex(i, n) ==
    IF i < 0 THEN (IF n + i < 0 THEN 0 ELSE n + i)
    ELSE IF i > n THEN n ELSE i

\* s[i:j], offsets counted from 0
Slice(s, i, j) == SubSeq(s, SliceIndex(i, Len(s)) + 1, SliceIndex(j, Len(s)))

\* s.rfind(sub) for a two-character sub: the highest offset, or -1
RFind(s, sub) ==
    LET at == {i \in 0..(Len(s) - 2) : s[i + 1] = sub[1] /\ s[i + 2] = sub[2]}
    IN IF at = {} THEN -1 ELSE CHOOSE i \in at : \A j \in at : j <= i

\* `end` as the loop body of chunk_text settles it
ChunkEnd(s, st, size) ==
    LET end == st + size
        last_para == RFind(Slice(s, st, end), <<"\n", "\n">>)
        last_period == RFind(Slice(s, st, end), <<".", " ">>)
    IN IF end < Len(s)
       THEN IF 2 * last_para > size THEN st + last_para
            ELSE IF 2 * last_period > size THEN st + last_period + 1
            ELSE end
       ELSE end

ChunkInit ==
    /\ RetrievalIdle
    /\ FusionIdle
    /\ ResolverIdle
    /\ RetryIdle
    /\ ServerIdle
    /\ PoolIdle
    /\ doc_text \in UNION { [1..n -> Chars] : n \in 0..MaxChars }
    /\ chunk_size \in 1..MaxChunkSize
    /\ overlap \in 0..(chunk_size - 1)
    /\ start = 0
    /\ chunks = <<>>
    /\ starts = <<>>
    /\ cpc = "called"

\* `if len(doc_text) <= chunk_size: return [doc_text]`, else enter the loop
ChunkEnter ==
    /\ cpc = "called"
    /\ IF Len(doc_text) <= chunk_size
       THEN /\ chunks' = <<doc_text>>
            /\ starts' = <<0>>
            /\ cpc' = "returned"
       ELSE /\ cpc' = "loop"
            /\ UNCHANGED <<chunks, starts>>
    /\ UNCHANGED <<doc_text, chunk_size, overlap, start>>
    /\ UNCHANGED retrievalVars
    /\ UNCHANGED fusionVars
    /\ UNCHANGED resolverVars
    /\ UNCHANGED retryVars
    /\ UNCHANGED serverVars
    /\ UNCHANGED poolVars

\* one pass of `while start < len(doc_text)`
ChunkLoop ==
    /\ cpc = "loop"
    /\ start < Len(doc_text)
    /\ Len(chunks) < MaxChunks
    /\ LET end == ChunkEnd(doc_text, start, chunk_size) IN
         /\ chunks' = Append(chunks, Slice(doc_text, start, end))
         /\ starts' = Append(starts, start)
         /\ start' = IF end < Len(doc_text) THEN end - overlap ELSE end
    /\ UNCHANGED <<doc_text, chunk_size, overlap, cpc>>
    /\ UNCHANGED retrievalVars
    /\ UNCHANGED fusionVars
    /\ UNCHANGED resolverVars
    /\ UNCHANGED retryVars
    /\ UNCHANGED serverVars
    /\ UNCHANGED poolVars

\* the loop condition fails: `return chunks`
ChunkReturn ==
    /\ cpc = "loop"
    /\ ~(start < Len(doc_text))
    /\ cpc' = "returned"
    /\ UNCHANGED <<doc_text, chunk_size, overlap, start, chunks, starts>>
    /\ UNCHANGED retrievalVars
    /\ UNCHANGED fusionVars
    /\ UNCHANGED resolverVars
    /\ UNCHANGED retryVars
    /\ UNCHANGED serverVars
    /\ UNCHANGED poolVars

ChunkNext ==
    \/ ChunkEnter
    \/ ChunkLoop
    \/ ChunkReturn

SpecChunk == ChunkInit /\ [][ChunkNext]_vars

(***************************************************************************)
(* Properties.                                                             *)
(***************************************************************************)
\* a line of the output starts with Final:
HasFinalLine(out) ==
    \E i \in 1..Len(Split(out, NL)) :
        Split(out, NL)[i] # <<>> /\ Head(Split(out, NL)[i]) = "Final:"

NoFinalLineSeen == \A i \in 1..Len(outputs) : ~HasFinalLine(outputs[i])

\* C1: react_agent never asks the model more than max_iterations times, and
\* when the model answered every call with text and no output has a Final: line
\* it ends
\* after exactly max_iterations calls with the fixed fallback content and no
\* references.
C1_IterationCap ==
    mode = "react" =>
        /\ llm_calls <= max_iterations
        /\ iteration = llm_calls
        /\ (pc = "done" /\ NoFinalLineSeen /\ ModelAnswered) =>
              /\ llm_calls = max_iterations
              /\ result = [status |-> "ok", content |-> FallbackAnswer,
                           references |-> <<>>]

C1_Witness ==
    /\ mode = "react"
    /\ pc = "done"
    /\ NoFinalLineSeen
    /\ max_iterations >= 2
    /\ llm_calls = max_iterations
    /\ all_search_results # <<>>
    /\ \E i \in 1..Len(outputs) : Contains(outputs[i], "Final:")

MentionsObservation(s) == \E i \in 1..Len(s) : LowerTok(s[i]) = "observation:"

\* C2: in react_agent no assistant turn of the transcript and no final content
\* holds an Observation: marker, in any letter case, written by the model.
C2_NoModelObservation ==
    mode = "react" =>
        /\ \A i \in 1..Len(agent_messages) :
              agent_messages[i].role = "assistant" =>
                  ~MentionsObservation(agent_messages[i].content)
        /\ ~MentionsObservation(result.content)

\* C3 as stated: no returned reference has a user_id field.
C3_NoUserIdField ==
    \A i \in 1..Len(result.references) : "user_id" \notin DOMAIN result.references[i]

\* C3: every returned reference is the complete stored row with its type: it
\* has the fields type, id and user_id, user_id being the owner of the row.
C3_ReferenceIsFullRow ==
    \A i \in 1..Len(result.references) :
        LET ref == result.references[i] IN
        /\ DOMAIN ref = {"type", "id", "user_id"}
        /\ \E row \in Table(ref.type) : row.id = ref.id /\ row.user_id = ref.user_id

C3_Witness ==
    /\ pc = "done"
    /\ Len(result.references) >= 2
    /\ \E i \in 1..Len(result.references) : result.references[i].type = "file"

\* C4: every returned reference is a row of the user who issued the query.
C4_OwnRecordsOnly ==
    \A i \in 1..Len(result.references) : result.references[i].user_id = user_id

Fused == fpc \in {"weighted", "done"}

\* the top_k best fused hits, before any forced insertion
TrimmedRanking ==
    Take(SortDesc(CombineScores(vector_results, keyword_results, fuzzy_results,
                                weights_used)), top_k)

\* C5: when the keyword signal has a hit and none of the top_k best fused hits
\* comes from it, the returned list still holds a keyword hit; likewise for the
\* fuzzy signal.
C5_DiversityGuarantee ==
    Fused =>
        /\ (keyword_results # <<>> /\ ~AnyFrom(TrimmedRanking, "keyword"))
              => AnyFrom(weighted_out, "keyword")
        /\ (fuzzy_results # <<>> /\ ~AnyFrom(TrimmedRanking, "fuzzy"))
              => AnyFrom(weighted_out, "fuzzy")

AllResults == vector_results \o keyword_results \o fuzzy_results

\* C6: deduplicate_results returns one hit per (type, id) of its input, an input
\* hit of that pair with the highest score of the pair.
C6_DedupKeepsMax ==
    fpc = "done" =>
        /\ \A j \in 1..Len(AllResults) :
              Cardinality({i \in 1..Len(dedup_out) :
                              KeyOf(dedup_out[i]) = KeyOf(AllResults[j])}) = 1
        /\ \A i \in 1..Len(dedup_out) :
              /\ \E j \in 1..Len(AllResults) : AllResults[j] = dedup_out[i]
              /\ \A j \in 1..Len(AllResults) :
                    KeyOf(AllResults[j]) = KeyOf(dedup_out[i])
                        => AllResults[j].score <= dedup_out[i].score

C6_Witness ==
    /\ fpc = "done"
    /\ Len(dedup_out) = 2
    /\ \E i \in 1..Len(AllResults), j \in 1..Len(AllResults) :
          /\ i < j
          /\ KeyOf(AllResults[i]) = KeyOf(AllResults[j])
          /\ AllResults[i].score < AllResults[j].score

\* the raw score of one signal for a key: the best of its hits for the key
Returned(rs, key) == \E i \in 1..Len(rs) : KeyOf(rs[i]) = key

RawScore(rs, key) ==
    IF Returned(rs, key)
    THEN CHOOSE sc \in {rs[i].score : i \in {n \in 1..Len(rs) : KeyOf(rs[n]) = key}} :
            \A i \in 1..Len(rs) : KeyOf(rs[i]) = key => rs[i].score <= sc
    ELSE 0

\* C7: the score of a returned hit is the sum over the signals that returned
\* it of raw score times weight, each signal once.
C7_ScoreIsWeightedSum ==
    Fused =>
        \A i \in 1..Len(weighted_out) :
            weighted_out[i].score =
                RawScore(vector_results, KeyOf(weighted_out[i])) * weights_used.vector
              + RawScore(keyword_results, KeyOf(weighted_out[i])) * weights_used.keyword
              + RawScore(fuzzy_results, KeyOf(weighted_out[i])) * weights_used.fuzzy

BaseWeights ==
    [vector |-> BaseVectorWeight, keyword |-> BaseKeywordWeight,
     fuzzy |-> BaseFuzzyWeight]

BaseRanking == FuseWith(vector_results, keyword_results, fuzzy_results, top_k, BaseWeights)

SomeNonzero(rs) == \E i \in 1..Len(rs) : rs[i].score # 0

\* C8 as stated: with only weak semantic scores and a nonzero keyword or fuzzy
\* score, the fused order differs from the order under the base weights.
C8_RankingDiffers ==
    (Fused /\ WeakVectors(vector_results)
       /\ (SomeNonzero(keyword_results) \/ SomeNonzero(fuzzy_results)))
    => KeysOf(weighted_out) # KeysOf(BaseRanking)

RECURSIVE TotalScore(_, _)
TotalScore(rs, key) ==
    IF rs = <<>> THEN 0
    ELSE (IF KeyOf(Head(rs)) = key THEN Head(rs).score ELSE 0) + TotalScore(Tail(rs), key)

\* C8: with only weak semantic scores the hits are scored with the weights
\* 0.3 / 0.4 / 0.3, and a returned hit's score differs from its score under the
\* base weights exactly when its semantic or fuzzy score is nonzero.
C8_WeakWeightsApplied ==
    (Fused /\ WeakVectors(vector_results)) =>
        \A i \in 1..Len(weighted_out) :
            LET key == KeyOf(weighted_out[i])
                sv == TotalScore(vector_results, key)
                sk == TotalScore(keyword_results, key)
                sf == TotalScore(fuzzy_results, key)
                base == sv * BaseVectorWeight + sk * BaseKeywordWeight
                        + sf * BaseFuzzyWeight
            IN /\ weighted_out[i].score = sv * WeakVectorWeight
                     + sk * WeakKeywordWeight + sf * WeakFuzzyWeight
               /\ (weighted_out[i].score # base) <=> (sv + sf > 0)

C8_Witness ==
    /\ Fused
    /\ WeakVectors(vector_results)
    /\ vector_results # <<>>
    /\ SomeNonzero(keyword_results)
    /\ Len(weighted_out) = 2
    /\ KeysOf(weighted_out) = KeysOf(BaseRanking)

WeightTotal(w) == w.vector + w.keyword + w.fuzzy

\* C9: under the weak-signal condition the semantic share of the total weight
\* is below its base share and the keyword and fuzzy shares are not below theirs.
C9_ShiftAwayFromSemantic ==
    (Fused /\ WeakVectors(vector_results)) =>
        /\ weights_used.vector * WeightTotal(BaseWeights)
              < BaseVectorWeight * WeightTotal(weights_used)
        /\ weights_used.keyword * WeightTotal(BaseWeights)
              >= BaseKeywordWeight * WeightTotal(weights_used)
        /\ weights_used.fuzzy * WeightTotal(BaseWeights)
              >= BaseFuzzyWeight * WeightTotal(weights_used)

\* C10: core/rag.combined_search returns the (type, id) pairs of the weighted
\* combined_search, in the same order.
C10_RagIsWeightedFusion ==
    fpc = "done" => KeysOf(rag_out) = KeysOf(weighted_out)

\* the hits of the signals whose search did not raise, as a set
SucceededHits ==
    {vector_results[i] : i \in {j \in 1..Len(vector_results) : "vector" \notin failed_signals}}
    \cup {keyword_results[i] :
            i \in {j \in 1..Len(keyword_results) : "keyword" \notin failed_signals}}
    \cup {fuzzy_results[i] : i \in {j \in 1..Len(fuzzy_results) : "fuzzy" \notin failed_signals}}

SucceededKeys == {KeyOf(h) : h \in SucceededHits}

BestSucceeded(key) ==
    CHOOSE s \in {h.score : h \in {x \in SucceededHits : KeyOf(x) = key}} :
        \A h \in SucceededHits : KeyOf(h) = key => h.score <= s

\* C11: whichever signals raise inside core/rag.combined_search, it returns the
\* fusion of the hits of the signals that succeeded: every returned hit is a
\* succeeded signal's best hit for its (type, id), each pair is returned once,
\* in descending score order, and the list holds the 2 * top_k best pairs.
C11_FailedSignalContributesNothing ==
    fpc = "done" =>
        /\ \A i \in 1..Len(rag_out) :
             /\ rag_out[i] \in SucceededHits
             /\ rag_out[i].score = BestSucceeded(KeyOf(rag_out[i]))
        /\ \A i \in 1..Len(rag_out), j \in 1..Len(rag_out) :
             i < j => /\ KeyOf(rag_out[i]) # KeyOf(rag_out[j])
                      /\ rag_out[i].score >= rag_out[j].score
        /\ Len(rag_out) = IF Cardinality(SucceededKeys) < 2 * top_k
                          THEN Cardinality(SucceededKeys) ELSE 2 * top_k
        /\ \A key \in SucceededKeys :
             (\A i \in 1..Len(rag_out) : KeyOf(rag_out[i]) # key) =>
                 \A i \in 1..Len(rag_out) : rag_out[i].score >= BestSucceeded(key)

\* a signal that found a record no other signal found has failed, and the fusion
\* of the two others is returned without that record
C11_Witness ==
    /\ fpc = "done"
    /\ failed_signals = {"vector"}
    /\ vector_results # <<>>
    /\ rag_out # <<>>
    /\ \A i \in 1..Len(rag_out) : KeyOf(rag_out[i]) # KeyOf(vector_results[1])

\* C12: once a call to the language-model service has failed, in whichever mode,
\* the request is over and its response is the error response, not a
\* {content, references} answer.
C12_ModelFailureEndsInError ==
    "llm" \in failed_services =>
        /\ pc = "done"
        /\ result.status = "error"
        /\ result = ErrorResponse

\* mixed mode: the initial search found hits, a tool call ran, and the next
\* completion failed
C12_Witness ==
    /\ mode = "mixed"
    /\ "llm" \in failed_services
    /\ all_search_results # <<>>
    /\ \E i \in 1..Len(agent_messages) : agent_messages[i].role = "tool"
    /\ result.status = "error"

C12_WitnessRag == mode = "rag" /\ "llm" \in failed_services /\ result.status = "error"

C12_WitnessReact ==
    /\ mode = "react"
    /\ "llm" \in failed_services
    /\ iteration = 2
    /\ result.status = "error"

C14_NoHitsNoReferences ==
    (mode = "rag" /\ pc = "done" /\ all_search_results = <<>>
        /\ ModelAnswered) =>
        /\ result.status = "ok"
        /\ agent_messages = << [role |-> "user", content |-> NoDataPrompt] >>
        /\ result.references = <<>>

\* the part of C14 the code keeps: zero hits give the no-data prompt and an
\* answer without error
C14_NoHitsNoDataPrompt ==
    (mode = "rag" /\ pc = "done" /\ all_search_results = <<>>
        /\ ModelAnswered) =>
        /\ result.status = "ok"
        /\ agent_messages = << [role |-> "user", content |-> NoDataPrompt] >>

\* the text ends with the line t
EndsWithLine(s, t) ==
    /\ Len(s) >= Len(t)
    /\ SubSeq(s, Len(s) - Len(t) + 1, Len(s)) = t
    /\ Len(s) > Len(t) => s[Len(s) - Len(t)] = NL

EndsWithCitation(s) == \E t \in CitationTails : EndsWithLine(s, t)

\* C15: for an output that ends with the line REFERENCE_IDS: email_1, file_3,
\* both rows existing, parse_reference_ids followed by fetch_references_by_ids
\* yields exactly the two references email/1 and file/3 in that order, and the
\* returned content holds no REFERENCE_IDS line.
C15_RoundTrip ==
    (ppc = "round_trip" /\ EndsWithCitation(in_text)) =>
        /\ Len(out_refs) = 2
        /\ out_refs[1].type = "email" /\ out_refs[1].id = "1"
        /\ out_refs[2].type = "file" /\ out_refs[2].id = "3"
        /\ ~HasRefMarker(out_content)

\* the round trip the code does keep: the closing line is the only line that
\* mentions REFERENCE_IDS
C15_RoundTripOfOnlyMarker ==
    (ppc = "round_trip" /\ EndsWithCitation(in_text)
        /\ Cardinality({i \in 1..Len(in_text) : IsRefMarker(in_text[i])}) = 1) =>
        /\ Len(out_refs) = 2
        /\ out_refs[1].type = "email" /\ out_refs[1].id = "1"
        /\ out_refs[2].type = "file" /\ out_refs[2].id = "3"
        /\ ~HasRefMarker(out_content)

\* position i holds the first REFERENCE_IDS: marker, it starts a line, and the
\* rest of that line is the one word none in some letter case
IsNoneLine(s, i) ==
    /\ IsRefMarker(s[i])
    /\ \A j \in 1..(i - 1) : ~IsRefMarker(s[j])
    /\ i = 1 \/ s[i - 1] = NL
    /\ i < Len(s)
    /\ LowerTok(s[i + 1]) = "none"
    /\ i + 1 = Len(s) \/ s[i + 2] = NL

\* the text without the two-word line at i and without that line's break
WithoutLine(s, i) ==
    IF i + 2 <= Len(s)
    THEN SubSeq(s, 1, i - 1) \o SubSeq(s, i + 3, Len(s))
    ELSE SubSeq(s, 1, i - 2)

\* C16 as claimed: for an output whose REFERENCE_IDS line reads none,
\* parse_reference_ids returns no ids and the input with that one line removed
\* and nothing else changed.
C16_NoneLineRemovedOnly ==
    ppc \in {"parsed_ids", "round_trip"} =>
        \A i \in 1..Len(in_text) :
            IsNoneLine(in_text, i) =>
                /\ in_ids = <<>>
                /\ out_content = WithoutLine(in_text, i)

\* the first marker is followed, line breaks aside, by the word none and the
\* end of a line
FirstMarkerReadsNone(s) ==
    \E i \in 1..Len(s), j \in 1..Len(s) :
        /\ IsRefMarker(s[i])
        /\ \A m \in 1..(i - 1) : ~IsRefMarker(s[m])
        /\ i < j
        /\ \A m \in (i + 1)..(j - 1) : s[m] = NL
        /\ LowerTok(s[j]) = "none"
        /\ j = Len(s) \/ s[j + 1] = NL

\* position p lies between a marker and the end of the marker's line, the line
\* break included
InMarkerTail(s, p) ==
    \E i \in 1..p : IsRefMarker(s[i]) /\ \A q \in i..(p - 1) : s[q] # NL

\* what is left of s outside the marker tails
OutsideMarkerTails(s) ==
    LET keep == {p \in 1..Len(s) : ~InMarkerTail(s, p)}
    IN [n \in 1..Cardinality(keep) |->
          s[CHOOSE p \in keep : Cardinality({q \in keep : q <= p}) = n]]

\* C16: when the first REFERENCE_IDS: marker reads none (any letter case),
\* parse_reference_ids returns no ids, and the content is the input without
\* every REFERENCE_IDS: marker and the rest of that marker's line, stripped of
\* the white space around it.
C16_NoneGivesNoIds ==
    (ppc \in {"parsed_ids", "round_trip"} /\ FirstMarkerReadsNone(in_text)) =>
        /\ in_ids = <<>>
        /\ out_content = Strip(OutsideMarkerTails(in_text))

\* an answer followed by a line REFERENCE_IDS: NONE has been parsed
C16_Witness ==
    /\ ppc = "parsed_ids"
    /\ Len(in_text) = 4
    /\ IsNoneLine(in_text, 3)
    /\ in_text[4] = "NONE"
    /\ out_content = <<"w">>

\* the (type, id) an input id points at: at most one.  An id with an underscore
\* is split at it; any other id takes the type of the first hit that carries it.
TargetsOf(ref_id, hits) ==
    IF Len(ref_id) # 1 THEN {}
    ELSE IF HasUnderscore(ref_id[1])
    THEN {<<SplitRef(ref_id[1]).type, SplitRef(ref_id[1]).id>>}
    ELSE {<<hits[n].type, ref_id[1]>> :
            n \in {m \in 1..Len(hits) :
                     /\ hits[m].id = ref_id[1]
                     /\ \A l \in 1..(m - 1) : hits[l].id # ref_id[1]}}

\* the stored rows an input id yields: its target names a table, the fetch does
\* not fail and the row exists
RecordsOf(ref_id, hits) ==
    {rec \in [type : RefTypes, id : {"1", "2", "3", "9"}, user_id : Users] :
        \E tg \in TargetsOf(ref_id, hits) :
            /\ tg \notin fetch_fails
            /\ rec.type = tg[1]
            /\ rec.id = tg[2]
            /\ [id |-> rec.id, user_id |-> rec.user_id] \in Table(tg[1])}

\* the positions of the input ids that yield a record
FoundAt(ids, hits) == {n \in 1..Len(ids) : RecordsOf(ids[n], hits) # {}}

\* C17: fetch_references_by_ids returns one record per input id that resolves,
\* is fetched and is found, in input order, and nothing for any other id: the
\* k-th record returned is the record of the k-th such id.
C17_FoundRecordsInOrder ==
    ppc \in {"references", "round_trip"} =>
        LET found == FoundAt(in_ids, in_hits) IN
        /\ Len(out_refs) = Cardinality(found)
        /\ \A n \in found :
             out_refs[Cardinality({m \in found : m <= n})]
                 \in RecordsOf(in_ids[n], in_hits)

\* the fetch of the first id failed, the second id names no row, the third id
\* was returned
C17_Witness ==
    /\ ppc = "references"
    /\ in_ids = << <<"file_3">>, <<"email_9">>, <<"email_1">> >>
    /\ fetch_fails = { <<"file", "3">> }
    /\ out_refs = << [type |-> "email", id |-> "1", user_id |-> "u1"] >>

\* a bare id was resolved through the type of the hit that carries it
C17_WitnessBareId ==
    /\ ppc = "references"
    /\ in_ids = << <<"web_search">>, <<"1">> >>
    /\ in_hits # <<>>
    /\ Len(out_refs) = 1

\* position p starts a line
LineStart(s, p) == p = 1 \/ s[p - 1] = NL

\* the last position of the line that holds position p
LineEnd(s, p) ==
    CHOOSE q \in p..Len(s) :
        /\ \A m \in p..q : s[m] # NL
        /\ q = Len(s) \/ s[q + 1] = NL

\* the line at p is a Final: line or an Action: line with one of the three tools
RecognisedAt(s, p) ==
    /\ LineStart(s, p)
    /\ \/ s[p] = "Final:"
       \/ /\ s[p] = "Action:"
          /\ p < Len(s)
          /\ LowerTok(s[p + 1]) \in SearchTools

FirstRecognisedAt(s, p) ==
    RecognisedAt(s, p) /\ \A m \in 1..(p - 1) : ~RecognisedAt(s, m)

\* C18: when the first recognised line of the text is Action: <tool> <query>,
\* parse_action returns that tool and the rest of that line as the query; when
\* no line starts with Action: or Final:, it returns (None, None).
C18_ActionLineParsed ==
    ppc = "action" =>
        /\ \A p \in 1..Len(in_text) :
             (FirstRecognisedAt(in_text, p) /\ in_text[p] = "Action:") =>
                 out_action = << LowerTok(in_text[p + 1]),
                                 SubSeq(in_text, p + 2, LineEnd(in_text, p)) >>
        /\ (\A p \in 1..Len(in_text) :
               LineStart(in_text, p) => in_text[p] \notin {"Action:", "Final:"}) =>
                 out_action = <<NoneTok, NoneArg>>

\* a thought line followed by an Action: line has been parsed to its tool and
\* query
C18_Witness ==
    /\ ppc = "action"
    /\ in_text = <<"w", NL, "Action:", "keyword_search", "w">>
    /\ out_action = <<"keyword_search", <<"w">>>>

\* C19: when the first recognised line of the text is a Final: line,
\* parse_action returns finish with, as answer, the text after that line's
\* Final: marker up to the end of the output, trimmed, whatever precedes the
\* line.
C19_FinalAnswerFromItsLine ==
    ppc = "action" =>
        \A p \in 1..Len(in_text) :
            (FirstRecognisedAt(in_text, p) /\ in_text[p] = "Final:") =>
                out_action = <<"finish", Strip(SubSeq(in_text, p + 1, Len(in_text)))>>

\* the part of C19 the code keeps: such a text parses to finish, and the answer
\* is the claimed one when no Final: stands before the line
C19_FinalLineFinishes ==
    ppc = "action" =>
        \A p \in 1..Len(in_text) :
            (FirstRecognisedAt(in_text, p) /\ in_text[p] = "Final:") =>
                /\ out_action[1] = "finish"
                /\ (\A m \in 1..(p - 1) : in_text[m] # "Final:") =>
                     out_action[2] = Strip(SubSeq(in_text, p + 1, Len(in_text)))

\* the output has a Final: line or an Action: line with one of the three tools
HasRecognisedLine(out) == \E p \in 1..Len(out) : RecognisedAt(out, p)

ObservationTexts(new_hits, user) ==
    { execute_search_tool_with_results(new_hits, failed, user)[1] :
          failed \in IF new_hits = <<>> THEN BOOLEAN ELSE {FALSE} }

\* the step ran a search in react mode: one more output, and it parses to a tool
SearchExecuted ==
    /\ mode = "react"
    /\ Len(outputs') = Len(outputs) + 1
    /\ parse_action(RemoveHallucinatedObservation(outputs'[Len(outputs')]))[1]
           \in SearchTools

\* C21: an iteration of react_agent that executes a search appends the assistant
\* turn holding the model's output and, directly after it, the "Observation:"
\* turn carrying that search's result, in the same step and so before the next
\* model call; the transcript only ever grows at its end, so every later call
\* sees the earlier observations in the order the searches ran.
C21_ObservationFollowsAction ==
    [][ /\ mode = "react" =>
              /\ Len(agent_messages') >= Len(agent_messages)
              /\ SubSeq(agent_messages', 1, Len(agent_messages)) = agent_messages
        /\ SearchExecuted =>
              LET n == Len(agent_messages)
                  output == RemoveHallucinatedObservation(outputs'[Len(outputs')])
                  new_hits == SubSeq(all_search_results', Len(all_search_results) + 1,
                                     Len(all_search_results'))
              IN /\ Len(agent_messages') = n + 2
                 /\ agent_messages'[n + 1] = [role |-> "assistant", content |-> output]
                 /\ agent_messages'[n + 2].role = "user"
                 /\ Head(agent_messages'[n + 2].content) = "Observation:"
                 /\ Tail(agent_messages'[n + 2].content)
                        \in ObservationTexts(new_hits, user_id)
      ]_vars

\* two searches ran; each output is followed by its own observation, and the
\* two observations differ
C21_Witness ==
    /\ mode = "react"
    /\ Len(agent_messages) = 4
    /\ agent_messages[1].role = "assistant"
    /\ agent_messages[2].role = "user"
    /\ agent_messages[3].role = "assistant"
    /\ agent_messages[4].role = "user"
    /\ Head(agent_messages[2].content) = "Observation:"
    /\ Head(agent_messages[4].content) = "Observation:"
    /\ agent_messages[2].content # agent_messages[4].content
    /\ Len(all_search_results) = 1


\* isinstance(content, str): a response's missing content is None, not text
IsStr(content) == content # NoneArg

\* C22: whatever the mode and whatever the model does, a finished request hands
\* the caller either a payload whose content is a string and whose references
\* is a list of objects each carrying type and id, or an error response.
C22_PayloadOrError ==
    pc = "done" =>
        \/ result = ErrorResponse
        \/ /\ result.status = "ok"
           /\ {"content", "references"} \subseteq DOMAIN result
           /\ IsStr(result.content)
           /\ \A i \in 1..Len(result.references) :
                  {"type", "id"} \subseteq DOMAIN result.references[i]

\* a request answered with a payload that carries two references
C22_Witness ==
    /\ pc = "done"
    /\ result.status = "ok"
    /\ Len(result.references) = 2

\* a request that ended in an error because the response had no content
C22_WitnessError ==
    /\ pc = "done"
    /\ result = ErrorResponse
    /\ "no_content" \in failed_services


ToolTurns == Cardinality({i \in 1..Len(agent_messages) : agent_messages[i].role = "tool"})

\* mixed_agent's rounds: at most max_iterations completions with tools, each
\* executing at most one round of tools; one more completion, without tools,
\* only after max_iterations rounds that all asked for tools, and it ends the
\* request
MixedRoundsBounded ==
    mode = "mixed" =>
        /\ iteration <= max_iterations
        /\ ToolTurns <= iteration
        /\ llm_calls \in {iteration, iteration + 1}
        /\ llm_calls = iteration + 1 =>
              /\ iteration = max_iterations
              /\ ToolTurns = max_iterations
              /\ pc = "done"

\* C24: whatever responses the model gives, mixed_agent terminates within
\* max_iterations tool-enabled rounds, takes a closing answer from exactly one
\* further completion without tools when the last round still asked for tools,
\* runs no tool after that, and returns {content, references}.
C24_MixedTerminatesWithPayload ==
    /\ MixedRoundsBounded
    /\ (mode = "mixed" /\ pc = "done" /\ "llm" \notin failed_services) =>
           /\ result.status = "ok"
           /\ IsStr(result.content)

\* the part of C24 that holds: the rounds are bounded, and the request returns
\* {content, references} whenever every response could be read
C24_RoundsBoundedPayloadIfReadable ==
    /\ MixedRoundsBounded
    /\ (mode = "mixed" /\ pc = "done" /\ ModelAnswered) =>
           /\ result.status = "ok"
           /\ IsStr(result.content)


\* C29: every reference react_agent returns is a record whose (type, id) is
\* among the hits its searches accumulated during the invocation; an id the
\* model cites that no executed search returned yields no reference.
C29_ReferencesAmongHits ==
    (mode = "react" /\ pc = "done") =>
        \A i \in 1..Len(result.references) :
            \E j \in 1..Len(all_search_results) :
                KeyOf(all_search_results[j]) = KeyOf(result.references[i])


\* C26: chat_completion called with max_retries = N >= 1 requests at most N
\* completions.  It goes on to another attempt, after sleeping 1 * 2^attempt
\* seconds, only when the error was retryable and attempts remained; an error
\* that is not retryable is re-raised where it first occurs, the N-th failure in
\* a row is re-raised, a successful response is returned at once.
chat_completion_contract ==
    /\ max_retries >= 1
    /\ attempts_made <= max_retries
    /\ Len(waits) = attempt
    /\ \A i \in 1..Len(waits) :
          /\ waits[i] = Pow2(i - 1)
          /\ is_retryable(errors[i])
          /\ i < max_retries
    /\ \A i \in 1..Len(errors) :
          ~is_retryable(errors[i]) => i = Len(errors) /\ rpc = "raised"
    /\ Len(errors) = max_retries => rpc = "raised"
    /\ rpc = "raised" =>
          /\ Len(errors) = attempts_made
          /\ \/ ~is_retryable(errors[Len(errors)])
             \/ attempts_made = max_retries
    /\ rpc = "returned" => Len(errors) = attempts_made - 1
    /\ rpc \in {"create", "sleep"} => Len(errors) = attempts_made

\* C26, all of it: the contract above holds throughout, and the call always
\* ends by returning a response or by raising.
C26_BoundedRetries ==
    /\ []chat_completion_contract
    /\ <>(rpc \in {"returned", "raised"})

\* three attempts allowed, all three failed with retryable errors: two
\* backoffs of 1 and 2 seconds, then the third error is raised
C26_Witness ==
    /\ max_retries = 3
    /\ rpc = "raised"
    /\ attempts_made = 3
    /\ waits = <<1, 2>>
    /\ is_retryable(errors[3])

\* a response returned on the second attempt, after one backoff
C26_WitnessReturned ==
    /\ rpc = "returned"
    /\ attempts_made = 2
    /\ waits = <<1>>


\* C25: while one query is inside a call to an external capability (embedding,
\* search primitive, language model, record fetch) or waits in a retry
\* backoff, any other query that is ready to run can be resumed.
C25_OthersCanProgress ==
    \A q1 \in Queries, q2 \in Queries :
        (q1 # q2 /\ InExternalCall(q1) /\ Runnable(q2)) => ENABLED Resume(q2)

\* the part of C25 that holds: a query suspended in the awaited completion
\* holds nothing, and a runnable query is stopped only by a query that is
\* inside one of the synchronous calls
C25_AwaitedCompletionFreesLoop ==
    \A q1 \in Queries, q2 \in Queries :
        (q1 # q2 /\ qpc[q1] = "llm_wait" /\ Runnable(q2)) =>
            \/ ENABLED Resume(q2)
            \/ \E q3 \in Queries \ {q1, q2} : qpc[q3] \in SyncCalls


\* worker threads running an item for one user, over all calls
RunningFor(user) ==
    LET RECURSIVE Sum(_)
        Sum(c) == IF c = 0 THEN 0
                  ELSE Sum(c - 1) + (IF call_user[c] = user THEN call_running[c] ELSE 0)
    IN Sum(NumCalls)

\* C27: at every moment, however many process_parallel calls run at once, the
\* worker threads running work for one user number at most
\* MAX_WORKERS_PER_USER, and those of all users at most MAX_TOTAL_WORKERS.
C27_WorkerLimitsHold ==
    /\ \A u \in Users : RunningFor(u) <= MAX_WORKERS_PER_USER
    /\ RunningFor("u1") + RunningFor("u2") <= MAX_TOTAL_WORKERS

\* the part of C27 that holds: one call never runs more than
\* MAX_WORKERS_PER_USER workers
C27_OneCallWithinUserLimit ==
    \A c \in Calls : call_running[c] <= MAX_WORKERS_PER_USER

\* C28: every call of acquire_worker(user_id) returns a boolean: none blocks
\* for ever, also when no other thread holds the manager's lock, and the
\* value is True exactly when the global and the user's count were both below
\* their limits.
C28_AcquireWorkerReturns ==
    \A t \in Threads :
        (tpc[t] = "acquire_with" /\ t_origin[t] = "acquire_worker")
            ~> (tpc[t] = "returned" /\ t_result[t] \in {"True", "False"})

\* where a call of acquire_worker ends up: waiting in can_acquire_worker for
\* the lock it holds itself
C28_SelfDeadlockFree ==
    \A t \in Threads : ~(tpc[t] = "can_acquire_with" /\ global_lock = t)

\* can_acquire_worker called on its own does return
C28_CanAcquireReturns ==
    \A t \in Threads :
        (tpc[t] = "can_acquire_with" /\ t_origin[t] = "can_acquire_worker"
            /\ \A o \in Threads : t_origin[o] # "acquire_worker")
            ~> (tpc[t] = "returned" \/ \E o \in Threads : t_origin[o] = "acquire_worker")


\* C30: for any text and any chunk_size > overlap >= 0 chunk_text terminates:
\* the start offset of each chunk is never negative and strictly greater than
\* that of the chunk before it.
C30_StartsAdvance ==
    /\ \A i \in 1..Len(starts) : starts[i] >= 0
    /\ \A i \in 1..Len(starts), j \in 1..Len(starts) : i < j => starts[i] < starts[j]
    /\ (cpc = "loop" /\ start < Len(doc_text) /\ starts # <<>>) =>
           start > starts[Len(starts)]

\* the part of C30 that holds: with an overlap of at most half the chunk_size
\* every start offset is beyond the one before it
C30_StartsAdvanceSmallOverlap ==
    2 * overlap <= chunk_size => C30_StartsAdvance

====
